---- MODULE Spec2Model ----
(***************************************************************************)
(* Personal Activity Index: the storage layer (SqliteStorage), the query   *)
(* translation (list_items / query_items), the source fetchers and the     *)
(* sync orchestrator (sync_all_sources), modelled as state machines.       *)
(*                                                                         *)
(* Text is a sequence: of one-character strings where the code inspects    *)
(* characters (titles, summaries, queries, timestamps), of larger pieces   *)
(* holding no separator where it only splits, trims and compares (ids,     *)
(* URIs, base URLs, handles).  Option<T> is a sequence of length 0 (None)  *)
(* or 1 (Some).                                                            *)
(***************************************************************************)
EXTENDS Integers, Sequences, FiniteSets, TLC

VARIABLES
    items,      \* the rows of the `items` table
    op,         \* the last storage call and what it returned
    like,       \* the last evaluation of the query predicate of list_items
    tsq,        \* the last published_at / since pair that met in list_items
    sync,       \* the running sync_all_sources call
    call        \* the last call of a helper or request handler and its outcome

vars == <<items, op, like, tsq, sync, call>>

----------------------------------------------------------------------------
(* Option<T>                                                               *)

None == <<>>

Some(x) == <<x>>

IsSome(o) == o # <<>>

Unwrap(o) == o[1]

Min(a, b) == IF a <= b THEN a ELSE b

Range(s) == {s[i] : i \in 1..Len(s)}

----------------------------------------------------------------------------
(* Bytes of the characters the model uses, for SQLite's BINARY collation   *)
(* of TEXT values (memcmp of the bytes, then the shorter string first).    *)

Code(c) ==
    CASE c = "%" -> 37
      [] c = "+" -> 43
      [] c = "-" -> 45
      [] c = "/" -> 47
      [] c = "0" -> 48
      [] c = "1" -> 49
      [] c = "2" -> 50
      [] c = "3" -> 51
      [] c = "4" -> 52
      [] c = "5" -> 53
      [] c = "6" -> 54
      [] c = "7" -> 55
      [] c = "8" -> 56
      [] c = "9" -> 57
      [] c = ":" -> 58
      [] c = "A" -> 65
      [] c = "T" -> 84
      [] c = "Z" -> 90
      [] c = "_" -> 95
      [] c = "a" -> 97
      [] c = "b" -> 98

RECURSIVE StrLeq(_, _)
StrLeq(a, b) ==
    IF a = <<>> THEN TRUE
    ELSE IF b = <<>> THEN FALSE
    ELSE IF Code(Head(a)) < Code(Head(b)) THEN TRUE
    ELSE IF Code(Head(a)) > Code(Head(b)) THEN FALSE
    ELSE StrLeq(Tail(a), Tail(b))

StrGeq(a, b) == StrLeq(b, a)

(* SQLite's LIKE folds the case of ASCII letters only.                     *)
Fold(c) == IF c = "A" THEN "a" ELSE c

(* SQLite's LIKE: '%' matches any run of characters, '_' exactly one       *)
(* character, every other pattern character itself up to ASCII case; no    *)
(* ESCAPE clause is given by the queries of this repository.               *)
RECURSIVE Like(_, _)
Like(p, s) ==
    IF p = <<>> THEN s = <<>>
    ELSE IF Head(p) = "%"
         THEN Like(Tail(p), s) \/ (s # <<>> /\ Like(p, Tail(s)))
         ELSE /\ s # <<>>
              /\ (Head(p) = "_" \/ Fold(Head(p)) = Fold(Head(s)))
              /\ Like(Tail(p), Tail(s))

(* format!("%{query}%")                                                    *)
LikePattern(query) == <<"%">> \o query \o <<"%">>

(* `col LIKE ?` on a nullable column: NULL LIKE p is NULL, which WHERE     *)
(* treats as false.                                                        *)
ColumnLike(col, pattern) == IsSome(col) /\ Like(pattern, Unwrap(col))

(* (title LIKE ? OR summary LIKE ?)                                        *)
QueryMatches(title, summary, query) ==
    \/ ColumnLike(title, LikePattern(query))
    \/ ColumnLike(summary, LikePattern(query))

----------------------------------------------------------------------------
(* Timestamps.  An instant is a number of hours; its RFC 3339 text is      *)
(* "2024-01-0D" "T" "HH" ":00:00" offset.  The year-month prefix and the   *)
(* minute-second field are the same text at the same position in every     *)
(* timestamp of the model, so the model's text keeps only the day digit,   *)
(* "T", the two hour digits and the offset, which is where two timestamps  *)
(* can differ.                                                             *)

Digit(n) == <<"0", "1", "2", "3", "4", "5", "6", "7", "8", "9">>[n + 1]

TwoDigits(n) == <<Digit(n \div 10), Digit(n % 10)>>

(* chrono's to_rfc3339 of a DateTime with a fixed offset of `off` hours:   *)
(* the local date and time followed by "+HH:00" / "-HH:00"; UTC is written *)
(* "+00:00", never "Z".                                                    *)
ToRfc3339(instant, off) ==
    LET local == instant + off
    IN  <<Digit(local \div 24), "T">> \o TwoDigits(local % 24)
          \o <<IF off < 0 THEN "-" ELSE "+">>
          \o TwoDigits(IF off < 0 THEN -off ELSE off)
          \o <<":", "0", "0">>

(* DateTime<Utc>::to_rfc3339                                               *)
ToRfc3339Utc(instant) == ToRfc3339(instant, 0)

----------------------------------------------------------------------------
(* The items table and the Storage trait of SqliteStorage.                 *)

SubstackKind == "substack"

BlueskyKind == "bluesky"

LeafletKind == "leaflet"

BearBlogKind == "bearblog"

(* A row of the table: the ten columns of INIT_SQL, the fields of Item.    *)
Item(id, kind, sourceId, author, title, summary, url, html, published, created) ==
    [id |-> id, source_kind |-> kind, source_id |-> sourceId, author |-> author,
     title |-> title, summary |-> summary, url |-> url, content_html |-> html,
     published_at |-> published, created_at |-> created]

(* `id TEXT PRIMARY KEY`: the column set on which INSERT OR REPLACE        *)
(* detects a conflict.                                                     *)
PrimaryKeyConflict(row, item) == row.id = item.id

(* INSERT OR REPLACE INTO items (...) VALUES (...): every row that         *)
(* conflicts with the new one on the primary key is deleted, then the new  *)
(* row is inserted with all ten columns taken from the item.               *)
InsertOrPlainInsertRows(table, item) == table \cup {item}

(* An upsert that overwrites a conflicting row column by column and is     *)
(* overtaken before the title is written.                                  *)
InsertOrOverwriteRows(table, item) ==
    {r \in table : r.id # item.id}
      \cup {IF \E r \in table : r.id = item.id
            THEN [item EXCEPT !.title = (CHOOSE r \in table : r.id = item.id).title]
            ELSE item}

InsertOrReplaceRows(table, item) ==
    {r \in table : ~PrimaryKeyConflict(r, item)} \cup {item}

(* The WHERE clause list_items builds: one AND-ed condition per set field. *)
RowMatches(r, f) ==
    /\ IsSome(f.source_kind) => r.source_kind = Unwrap(f.source_kind)
    /\ IsSome(f.source_id) => r.source_id = Unwrap(f.source_id)
    /\ IsSome(f.since) => StrGeq(r.published_at, Unwrap(f.since))
    /\ IsSome(f.query) => QueryMatches(r.title, r.summary, Unwrap(f.query))

(* ORDER BY published_at DESC: any arrangement of the rows in which no row *)
(* precedes one with a greater published_at; SQLite leaves the order of    *)
(* rows with equal keys open.                                              *)
OrderedByPublishedDesc(s) ==
    \A i, j \in 1..Len(s) : i < j => StrGeq(s[i].published_at, s[j].published_at)

Orderings(rows) ==
    {s \in [1..Cardinality(rows) -> rows] :
        /\ \A i, j \in 1..Cardinality(rows) : i # j => s[i] # s[j]
        /\ OrderedByPublishedDesc(s)}

(* LIMIT n: the first n rows of the ordered result.                        *)
ApplyLimit(s, limit) ==
    IF IsSome(limit) THEN SubSeq(s, 1, Min(Unwrap(limit), Len(s))) ELSE s

(* The results list_items can return for a table and a filter.             *)
ListItemsResults(table, f) ==
    {ApplyLimit(s, f.limit) : s \in Orderings({r \in table : RowMatches(r, f)})}

(* get_item: SELECT ... WHERE id = ?1 LIMIT 1, as an Option<Item>.         *)
GetItemResults(table, id) ==
    IF \E r \in table : r.id = id
    THEN {Some(r) : r \in {x \in table : x.id = id}}
    ELSE {None}

(* count_items: the COUNT of all rows of items                             *)
CountItems(table) == Cardinality(table)

(* get_stats: the COUNT per source_kind, one pair for each kind present.   *)
GetStats(table) ==
    {<<k, Cardinality({r \in table : r.source_kind = k})>> :
        k \in {r.source_kind : r \in table}}

(* An init_schema that creates the items table anew.                       *)
InitSchemaFromScratch(table) == {}

(* init_schema on a database that has its tables and its schema_version:   *)
(* CREATE TABLE IF NOT EXISTS keeps the table, no version row is written.  *)
InitSchema(table) == table

----------------------------------------------------------------------------
(* Inputs of the storage specification.                                    *)

MaxLimit == 1

StoreIds == {<<"id1">>, <<"id2">>}

StoreKinds == {SubstackKind, BlueskyKind}

StoreSourceIds == {<<"src1">>, <<"src2">>}

StoreTexts == {None, Some(<<"a">>)}

EarlyDate == ToRfc3339Utc(36)

LateDate == ToRfc3339Utc(60)

StoreDates == {EarlyDate, LateDate}

CreatedAt == ToRfc3339Utc(72)

StoreItems ==
    {Item(i, k, s, None, t, None, i, None, p, CreatedAt) :
        i \in StoreIds, k \in StoreKinds, s \in StoreSourceIds,
        t \in StoreTexts, p \in StoreDates}

OptionOf(S) == {None} \cup {Some(x) : x \in S}

ListFilter(kind, sourceId, limit, since, query) ==
    [source_kind |-> kind, source_id |-> sourceId, limit |-> limit,
     since |-> since, query |-> query]

(* The filters tried: each field unset or set; a set field takes one value *)
(* that some rows satisfy and others do not.                               *)
StoreFilters ==
    {ListFilter(k, s, l, d, q) :
        k \in OptionOf({SubstackKind}), s \in OptionOf({<<"src1">>}),
        l \in OptionOf(0..MaxLimit), d \in OptionOf({LateDate}),
        q \in OptionOf({<<"a">>, <<"%">>})}

DefaultFilter == ListFilter(None, None, None, None, None)

(* The record of the last storage call: its name, its arguments and its    *)
(* result; for an upsert also what the table held for the item's id.       *)
NoOp ==
    [name |-> "none", item |-> None, had |-> "", filter |-> DefaultFilter,
     id |-> <<>>, rows |-> <<>>, found |-> None]

HadBefore(table, item) ==
    IF item \in table THEN "same row"
    ELSE IF \E r \in table : r.id = item.id /\ r.source_kind = item.source_kind
         THEN "same pair, other fields"
    ELSE IF \E r \in table : r.id = item.id
         THEN "same id, other kind"
    ELSE "nothing"

(* Storage::insert_or_replace_item                                         *)
InsertOrReplaceItem(item) ==
    /\ items' = InsertOrReplaceRows(items, item)
    /\ op' = [NoOp EXCEPT !.name = "insert_or_replace_item",
                          !.item = Some(item),
                          !.had = HadBefore(items, item)]
    /\ UNCHANGED <<call, like, tsq, sync>>

(* Storage::list_items                                                     *)
ListItems(filter) ==
    /\ \E rows \in ListItemsResults(items, filter) :
          op' = [NoOp EXCEPT !.name = "list_items", !.filter = filter,
                             !.rows = rows]
    /\ UNCHANGED <<call, items, like, tsq, sync>>

(* SqliteStorage::get_item                                                 *)
GetItem(id) ==
    /\ \E found \in GetItemResults(items, id) :
          op' = [NoOp EXCEPT !.name = "get_item", !.id = id, !.found = found]
    /\ UNCHANGED <<call, items, like, tsq, sync>>

----------------------------------------------------------------------------
(* The query predicate of list_items on one row, evaluated once.           *)

MaxQueryLen == 1

MaxTextLen == 2

LikeChars == {"a", "A", "%", "_"}

SeqsUpTo(S, n) == UNION {[1..k -> S] : k \in 0..n}

(* Query strings a caller can pass: the worker passes `q` as received, so  *)
(* the empty string is among them.                                         *)
LikeQueries == SeqsUpTo(LikeChars, MaxQueryLen)

LikeTexts == OptionOf(SeqsUpTo(LikeChars, MaxTextLen))

LikeInputs ==
    {[phase |-> "input", query |-> q, title |-> t, summary |-> m, returned |-> FALSE] :
        q \in LikeQueries, t \in LikeTexts, m \in LikeTexts}

(* list_items with only `query` set, over a table holding one row: the     *)
(* row is returned iff the WHERE clause accepts it.                        *)
EvalQuery ==
    /\ like.phase = "input"
    /\ like' = [like EXCEPT !.phase = "done",
                            !.returned = QueryMatches(like.title, like.summary, like.query)]
    /\ UNCHANGED <<call, items, op, tsq, sync>>

----------------------------------------------------------------------------
(* Timestamps on their way into published_at and into the `since` bound.   *)

DigitValue(c) == Code(c) - 48

(* DateTime::parse_from_rfc3339: the instant a timestamp text denotes,     *)
(* local time minus offset; "Z" is offset zero.                            *)
ParseRfc3339(t) ==
    LET local == 24 * DigitValue(t[1]) + 10 * DigitValue(t[3]) + DigitValue(t[4])
        hours == 10 * DigitValue(t[6]) + DigitValue(t[7])
    IN  IF t[5] = "Z" THEN local
        ELSE IF t[5] = "-" THEN local + hours
        ELSE local - hours

(* A timestamp as a remote service or a caller writes it: UTC with the "Z" *)
(* suffix, or local time with a numeric offset.                            *)
ZuluText(instant) == <<Digit(instant \div 24), "T">> \o TwoDigits(instant % 24) \o <<"Z">>

TimeSpan == 1

MaxOffset == 1

Instants == (36 - TimeSpan)..(36 + TimeSpan)

Offsets == (-MaxOffset)..MaxOffset

RawTimestamps ==
    {ZuluText(i) : i \in Instants} \cup {ToRfc3339(i, o) : i \in Instants, o \in Offsets}

(* published_at as each sync path writes it for a record whose timestamp   *)
(* the source gives as `raw`.                                              *)
(*   feed fetchers of the core: feed_rs yields DateTime<Utc>, to_rfc3339   *)
(*   BlueskyFetcher: the record's createdAt string, copied                 *)
(*   worker feed syncs: parse_from_rfc2822 keeps the offset, to_rfc3339    *)
PublishedAtOf(path, raw) ==
    CASE path = "core feed" -> ToRfc3339Utc(ParseRfc3339(raw))
      [] path = "core bluesky" -> raw
      [] path = "worker feed" ->
            ToRfc3339(ParseRfc3339(raw),
                      IF raw[5] = "Z" THEN 0
                      ELSE IF raw[5] = "-"
                           THEN -(10 * DigitValue(raw[6]) + DigitValue(raw[7]))
                           ELSE 10 * DigitValue(raw[6]) + DigitValue(raw[7]))
      [] path = "worker bluesky" -> raw

SyncPaths == {"core feed", "core bluesky", "worker feed", "worker bluesky"}

(* filter.since as each query surface passes it to storage.                *)
(*   CLI list/export: normalize_since_with_now converts to UTC             *)
(*   server FeedQuery::into_filter: the trimmed parameter, unchanged       *)
(*   worker handle_feed: the parameter, unchanged                          *)
SinceOf(surface, raw) ==
    CASE surface = "cli" -> ToRfc3339Utc(ParseRfc3339(raw))
      [] surface = "server" -> raw
      [] surface = "worker" -> raw

QuerySurfaces == {"cli", "server", "worker"}

SinceInputs ==
    {[phase |-> "input", path |-> p, rawPublished |-> rp, surface |-> s, rawSince |-> rs,
      published_at |-> <<>>, since |-> <<>>, returned |-> FALSE] :
        p \in SyncPaths, rp \in RawTimestamps, s \in QuerySurfaces, rs \in RawTimestamps}

(* A sync pass stores one item with the record's timestamp.                *)
StorePublishedAt ==
    /\ tsq.phase = "input"
    /\ tsq' = [tsq EXCEPT !.phase = "stored",
                          !.published_at = PublishedAtOf(tsq.path, tsq.rawPublished)]
    /\ UNCHANGED <<call, items, op, like, sync>>

(* A query surface lists with `since` set: `published_at >= ?`.            *)
ListSince ==
    /\ tsq.phase = "stored"
    /\ LET since == SinceOf(tsq.surface, tsq.rawSince)
       IN  tsq' = [tsq EXCEPT !.phase = "listed",
                              !.since = since,
                              !.returned = StrGeq(tsq.published_at, since)]
    /\ UNCHANGED <<call, items, op, like, sync>>

----------------------------------------------------------------------------
(* Source configuration (SourcesConfig) and the selection of sources by    *)
(* sync_all_sources.                                                       *)

(* str::trim_start_matches / trim_end_matches: the pattern is removed as   *)
(* often as it leads (ends) the text.                                      *)
RECURSIVE TrimStartMatches(_, _)
TrimStartMatches(s, prefix) ==
    IF s # <<>> /\ Head(s) = prefix THEN TrimStartMatches(Tail(s), prefix) ELSE s

RECURSIVE TrimEndMatches(_, _)
TrimEndMatches(s, suffix) ==
    IF s # <<>> /\ s[Len(s)] = suffix
    THEN TrimEndMatches(SubSeq(s, 1, Len(s) - 1), suffix)
    ELSE s

(* SubstackFetcher::normalize_source_id, and the same three calls inline   *)
(* in sync_all_sources.                                                    *)
NormalizeSourceId(base_url) ==
    TrimEndMatches(
        TrimStartMatches(TrimStartMatches(base_url, "https://"), "http://"), "/")

SubstackConfig(enabled, base_url) == [enabled |-> enabled, base_url |-> base_url]

BlueskyConfig(enabled, handle) == [enabled |-> enabled, handle |-> handle]

LeafletConfig(enabled, id, base_url) ==
    [enabled |-> enabled, id |-> id, base_url |-> base_url]

BearBlogConfig(enabled, id, base_url) ==
    [enabled |-> enabled, id |-> id, base_url |-> base_url]

SourcesConfig(substack, bluesky, leaflet, bearblog) ==
    [substack |-> substack, bluesky |-> bluesky, leaflet |-> leaflet,
     bearblog |-> bearblog]

EmptyConfig == SourcesConfig(None, None, <<>>, <<>>)

(* sync_all_sources visits, in this order, the optional Substack config,   *)
(* the optional Bluesky config, every Leaflet config and every BearBlog    *)
(* config.  Slot i is its i-th stop.                                       *)
SlotCount(config) == 2 + Len(config.leaflet) + Len(config.bearblog)

SlotKind(config, i) ==
    IF i = 1 THEN SubstackKind
    ELSE IF i = 2 THEN BlueskyKind
    ELSE IF i <= 2 + Len(config.leaflet) THEN LeafletKind
    ELSE BearBlogKind

SlotConfig(config, i) ==
    IF i = 1 THEN config.substack
    ELSE IF i = 2 THEN config.bluesky
    ELSE IF i <= 2 + Len(config.leaflet) THEN Some(config.leaflet[i - 2])
    ELSE Some(config.bearblog[i - 2 - Len(config.leaflet)])

(* The id of a configured source that sync_all_sources compares with the   *)
(* source-id filter.                                                       *)
SlotSourceId(config, i) ==
    LET cfg == Unwrap(SlotConfig(config, i))
    IN  IF i = 1 THEN NormalizeSourceId(cfg.base_url)
        ELSE IF i = 2 THEN cfg.handle
        ELSE cfg.id

(* should_sync behind the `enabled` test of each block:                    *)
(*   (Some(k), _) if k != Kind => false, (_, Some(sid)) => id == sid,      *)
(*   _ => true                                                             *)
ShouldSyncAnyKind(config, i, kind, source_id) ==
    /\ IsSome(SlotConfig(config, i))
    /\ Unwrap(SlotConfig(config, i)).enabled
    /\ IsSome(source_id) => SlotSourceId(config, i) = Unwrap(source_id)

ShouldSync(config, i, kind, source_id) ==
    /\ IsSome(SlotConfig(config, i))
    /\ Unwrap(SlotConfig(config, i)).enabled
    /\ IF IsSome(kind) /\ Unwrap(kind) # SlotKind(config, i) THEN FALSE
       ELSE IF IsSome(source_id) THEN SlotSourceId(config, i) = Unwrap(source_id)
       ELSE TRUE

----------------------------------------------------------------------------
(* The fetchers: what one HTTP response and one feed entry become.         *)

(* An HTTP exchange as the fetchers see it: whether the tokio runtime was  *)
(* built, whether a response arrived, whether its status is a success, and *)
(* whether its body parses as what the fetcher expects.                    *)
Responses ==
    [runtime_ok : BOOLEAN, sent : BOOLEAN, status_success : BOOLEAN,
     body_parses : BOOLEAN]

(* A fetch_feed that hands any body on as a feed.                          *)
FetchFeedResultUnparsed(response) ==
    IF ~response.runtime_ok THEN "Fetch"
    ELSE IF ~response.sent THEN "Fetch"
    ELSE "Ok"

(* SubstackFetcher / BearBlogFetcher ::fetch_feed under sync's runtime:    *)
(* the status of the response is not looked at.                            *)
FetchFeedResult(response) ==
    IF ~response.runtime_ok THEN "Fetch"
    ELSE IF ~response.sent THEN "Fetch"
    ELSE IF ~response.body_parses THEN "Parse"
    ELSE "Ok"

(* BlueskyFetcher::fetch_author_feed under sync's runtime.                 *)
FetchAuthorFeedResult(response) ==
    IF ~response.runtime_ok THEN "Fetch"
    ELSE IF ~response.sent THEN "Fetch"
    ELSE IF ~response.status_success THEN "Fetch"
    ELSE IF ~response.body_parses THEN "Parse"
    ELSE "Ok"

(* The Leaflet fetcher's GET and parse: a transport failure or a           *)
(* non-success status is a Fetch error, a body that is no feed a Parse     *)
(* error.                                                                  *)
LeafletFetchResult(response) ==
    IF ~response.runtime_ok THEN "Fetch"
    ELSE IF ~response.sent THEN "Fetch"
    ELSE IF ~response.status_success THEN "Fetch"
    ELSE IF ~response.body_parses THEN "Parse"
    ELSE "Ok"

(* What a fetcher has in hand right after the exchange: nothing when no    *)
(* response arrived, else the status class and whether the body is a       *)
(* feed.                                                                   *)
NoResponse == [status |-> "none", body |-> "none"]

ResponseSeen(response) ==
    IF ~response.runtime_ok \/ ~response.sent THEN NoResponse
    ELSE [status |-> IF response.status_success THEN "success" ELSE "error",
          body |-> IF response.body_parses THEN "parses" ELSE "garbage"]

(* An entry of a parsed feed (feed_rs): its id, first link, title,         *)
(* summary, first author, content body, published and updated instants.    *)
FeedEntry(id, link, title, summary, author, content, published, updated) ==
    [id |-> id, link |-> link, title |-> title, summary |-> summary,
     author |-> author, content |-> content, published |-> published,
     updated |-> updated]

(* entry.published.or(entry.updated).map(to_rfc3339), else the clock       *)
EntryPublishedAt(entry) ==
    IF IsSome(entry.published) THEN ToRfc3339Utc(Unwrap(entry.published))
    ELSE IF IsSome(entry.updated) THEN ToRfc3339Utc(Unwrap(entry.updated))
    ELSE CreatedAt

(* A Substack item stamped with the configured base_url as it stands.      *)
SubstackItemOfBaseUrl(config, entry) ==
    Item(entry.id, SubstackKind, config.base_url, entry.author,
         entry.title, entry.summary,
         IF IsSome(entry.link) THEN Unwrap(entry.link) ELSE entry.id,
         entry.content, EntryPublishedAt(entry), CreatedAt)

(* The Item SubstackFetcher::sync builds from an entry.                    *)
SubstackItem(config, entry) ==
    Item(entry.id, SubstackKind, NormalizeSourceId(config.base_url), entry.author,
         entry.title, entry.summary,
         IF IsSome(entry.link) THEN Unwrap(entry.link) ELSE entry.id,
         entry.content, EntryPublishedAt(entry), CreatedAt)

(* The Item BearBlogFetcher::sync builds from an entry.                    *)
BearBlogItem(config, entry) ==
    Item(entry.id, BearBlogKind, config.id, entry.author,
         entry.title, entry.summary,
         IF IsSome(entry.link) THEN Unwrap(entry.link) ELSE entry.id,
         entry.content, EntryPublishedAt(entry), CreatedAt)

(* The Item the Leaflet fetcher builds from an entry: a feed-based fetcher *)
(* with the common entry mapping, source_id taken from the config's id.    *)
LeafletItem(config, entry) ==
    Item(entry.id, LeafletKind, config.id, entry.author,
         entry.title, entry.summary,
         IF IsSome(entry.link) THEN Unwrap(entry.link) ELSE entry.id,
         entry.content, EntryPublishedAt(entry), CreatedAt)

(* An entry of the author feed as JSON: `reason` is "absent", "null" or    *)
(* "repost" (an object); the post carries its uri, the author's handle,    *)
(* the record's text and createdAt, each possibly missing where the JSON   *)
(* may omit it.                                                            *)
FeedViewPost(reason, uri, handle, text, createdAt) ==
    [reason |-> reason, uri |-> uri, handle |-> handle, text |-> text,
     createdAt |-> createdAt]

(* serde's Option<Value>: a missing field and a JSON null both become      *)
(* None.                                                                   *)
DeserializedReason(reason) ==
    IF reason = "absent" \/ reason = "null" THEN None ELSE Some(reason)

(* BlueskyFetcher::is_original_post                                        *)
IsOriginalPostAlways(feed_post) == TRUE

IsOriginalPost(feed_post) == DeserializedReason(feed_post.reason) = None

(* str::split(sep): the pieces between the separators, empty ones kept.    *)
RECURSIVE Split(_, _)
Split(s, sep) ==
    IF \E i \in 1..Len(s) : s[i] = sep
    THEN LET i == CHOOSE k \in 1..Len(s) :
                      s[k] = sep /\ \A j \in 1..(k - 1) : s[j] # sep
         IN  <<SubSeq(s, 1, i - 1)>> \o Split(SubSeq(s, i + 1, Len(s)), sep)
    ELSE <<s>>

ProfileUrl(handle, post_id) ==
    <<"https://", "bsky.app", "/", "profile", "/">> \o handle
        \o <<"/", "post", "/">> \o post_id

(* BlueskyFetcher::at_uri_to_url, as an Option: None is Err(Parse).        *)
AtUriToUrl(uri, handle) ==
    LET parts == Split(uri, "/")
    IN  IF Len(parts) >= 4 /\ parts[1] = <<"at:">>
        THEN Some(ProfileUrl(handle, parts[Len(parts)]))
        ELSE None

(* The length in bytes of a character's UTF-8 encoding: the characters of  *)
(* the model are ASCII but for "U+00E9", which takes two bytes.            *)
Utf8Len(c) == IF c = "U+00E9" THEN 2 ELSE 1

(* str::len: the length of a text in bytes.                                *)
RECURSIVE ByteLen(_)
ByteLen(text) == IF text = <<>> THEN 0 ELSE Utf8Len(Head(text)) + ByteLen(Tail(text))

(* str::is_char_boundary(n): n bytes are a whole number of characters.     *)
IsCharBoundary(text, n) ==
    \E i \in 0..Len(text) : ByteLen(SubSeq(text, 1, i)) = n

(* &text[..n] where n is a character boundary: the characters encoded in   *)
(* the first n bytes.                                                      *)
BytePrefix(text, n) ==
    SubSeq(text, 1, CHOOSE i \in 0..Len(text) : ByteLen(SubSeq(text, 1, i)) = n)

TitleLimit == 100

TitleKeep == 97

(* `&text[..97]` panics when byte 97 falls inside a character.             *)
CreateTitlePanics(text) ==
    ByteLen(text) > TitleLimit /\ ~IsCharBoundary(text, TitleKeep)

(* BlueskyFetcher::create_title, where it does not panic: `text.len()` is  *)
(* the length in bytes and `&text[..97]` cuts at a byte offset.            *)
CreateTitle(text) ==
    IF ByteLen(text) <= TitleLimit THEN text
    ELSE BytePrefix(text, TitleKeep) \o <<".", ".", ".">>

(* The Item BlueskyFetcher::sync builds from an original post whose URI    *)
(* converts.                                                               *)
BlueskyItem(config, feed_post) ==
    Item(Unwrap(feed_post.uri), BlueskyKind, config.handle, Some(feed_post.handle),
         IF IsSome(feed_post.text) THEN Some(CreateTitle(Unwrap(feed_post.text)))
         ELSE None,
         feed_post.text,
         Unwrap(AtUriToUrl(Unwrap(feed_post.uri), feed_post.handle)),
         None,
         IF IsSome(feed_post.createdAt) THEN Unwrap(feed_post.createdAt)
         ELSE CreatedAt,
         CreatedAt)

(* Worker sync_bluesky: item.get("reason").is_some()                       *)
WorkerReasonPresent(feed_post) == feed_post.reason # "absent"

(* Worker sync_bluesky: the row bound to INSERT OR REPLACE for an entry    *)
(* that has a uri.                                                         *)
WorkerBlueskyItem(config, feed_post) ==
    LET uri == Unwrap(feed_post.uri)
        text == IF IsSome(feed_post.text) THEN Unwrap(feed_post.text) ELSE <<>>
        parts == Split(uri, "/")
    IN  Item(uri, BlueskyKind, config.handle, Some(config.handle),
             Some(IF ByteLen(text) > TitleLimit
                  THEN BytePrefix(text, TitleKeep) \o <<".", ".", ".">>
                  ELSE text),
             Some(text),
             ProfileUrl(config.handle, parts[Len(parts)]),
             None,
             IF IsSome(feed_post.createdAt) THEN Unwrap(feed_post.createdAt)
             ELSE <<>>,
             CreatedAt)

----------------------------------------------------------------------------
(* A run of sync_all_sources (mode "core"), or one pass of the worker's    *)
(* sync_bluesky (mode "worker").  Beside the program's own state (the      *)
(* slot reached, entries consumed, synced_count, the result) the record    *)
(* keeps a history of the run for the claims to read: the slots whose sync *)
(* was invoked, the latest item upserted per id, whether a row the run had *)
(* written has left the table since, the URIs of the entries read with a   *)
(* repost reason, the first failure and the step it struck at, the last    *)
(* entry's fate, and the response received in the step just taken.         *)

NoResult == [tag |-> "none", count |-> 0, error |-> ""]

OkResult(n) == [tag |-> "ok", count |-> n, error |-> ""]

ErrResult(e) == [tag |-> "err", count |-> 0, error |-> e]

NoLast == [step |-> "none", reason |-> "absent"]

NoSync ==
    [pc |-> "idle", mode |-> "", config |-> EmptyConfig, kind |-> None,
     source_id |-> None, idx |-> 0, processed |-> 0, synced_count |-> 0,
     result |-> NoResult, invoked |-> <<>>, written |-> {}, lost |-> FALSE,
     reposts |-> {}, failure |-> None, last |-> NoLast,
     response |-> NoResponse]

(* History after an entry was upserted, was skipped, made the sync fail.   *)
SeenReposts(s, feed_post) ==
    IF feed_post.reason = "repost" THEN s.reposts \cup {feed_post.uri} ELSE s.reposts

(* A row the run wrote earlier is in the table before the step and not     *)
(* after it.                                                               *)
LostBy(s, before, after) ==
    s.lost \/ \E w \in s.written : w \in before /\ w \notin after

Upserted(s, before, after, item, reason) ==
    [s EXCEPT !.processed = @ + 1,
              !.written = {w \in @ : w.id # item.id} \cup {item},
              !.lost = LostBy(s, before, after),
              !.reposts = IF reason = "repost" THEN @ \cup {Some(item.id)} ELSE @,
              !.last = [step |-> "upserted", reason |-> reason],
              !.response = NoResponse]

Skipped(s, feed_post) ==
    [s EXCEPT !.processed = @ + 1,
              !.reposts = SeenReposts(s, feed_post),
              !.last = [step |-> "skipped", reason |-> feed_post.reason],
              !.response = NoResponse]

Failed(s, error) ==
    [s EXCEPT !.failure = IF IsSome(@) THEN @
                          ELSE Some([slot |-> s.idx, error |-> error,
                                     processed |-> s.processed,
                                     stage |-> s.pc]),
              !.last = [NoLast EXCEPT !.step = "failed"],
              !.response = IF s.pc = "fetch" THEN @ ELSE NoResponse]

(* `fetcher.sync(storage)?` in sync_all_sources: an Err leaves the         *)
(* function at once, as its return value.                                  *)
SwallowError(s, error) ==
    [s EXCEPT !.pc = "select", !.idx = @ + 1, !.processed = 0]

PropagateError(s, error) ==
    [s EXCEPT !.pc = "returned", !.result = ErrResult(error)]

(* `synced_count += 1` after a sync that returned Ok, then on to the next  *)
(* block or loop iteration.                                                *)
AfterSyncOkCountingItems(s) ==
    [s EXCEPT !.pc = "select", !.idx = @ + 1, !.synced_count = @ + s.processed,
              !.processed = 0]

AfterSyncOk(s) ==
    [s EXCEPT !.pc = "select", !.idx = @ + 1, !.synced_count = @ + 1,
              !.processed = 0]

(* insert_or_replace_item runs one statement outside any transaction: a    *)
(* later error return leaves the table as the completed statements left    *)
(* it, whatever the run has written so far.                                *)
RowsWithoutRun(table, written) == table \ written

RowsAfterError(table, written) == table

(* The longest feed the model lets a fetcher read.                         *)
MaxFeed == 2

(* sync_all_sources(config, storage, kind, source_id) is entered.          *)
SyncAllSources(config, kind, source_id) ==
    /\ sync.pc = "idle"
    /\ sync' = [NoSync EXCEPT !.pc = "select", !.mode = "core",
                              !.config = config, !.kind = kind,
                              !.source_id = source_id, !.idx = 1]
    /\ UNCHANGED <<call, items, op, like, tsq>>

(* A block or loop iteration whose source is missing, disabled or filtered *)
(* out.                                                                    *)
SkipSource ==
    /\ sync.pc = "select" /\ sync.mode = "core"
    /\ sync.idx <= SlotCount(sync.config)
    /\ ~ShouldSync(sync.config, sync.idx, sync.kind, sync.source_id)
    /\ sync' = [sync EXCEPT !.idx = @ + 1]
    /\ UNCHANGED <<call, items, op, like, tsq>>

(* Fetcher::new(config) and the call of fetcher.sync(storage).             *)
InvokeSync ==
    /\ sync.pc = "select" /\ sync.mode = "core"
    /\ sync.idx <= SlotCount(sync.config)
    /\ ShouldSync(sync.config, sync.idx, sync.kind, sync.source_id)
    /\ sync' = [sync EXCEPT !.pc = "fetch", !.invoked = Append(@, sync.idx),
                            !.processed = 0]
    /\ UNCHANGED <<call, items, op, like, tsq>>

(* The head of a fetcher's sync: the runtime, the GET, the parse.          *)
FetchSource(response) ==
    /\ sync.pc = "fetch" /\ sync.mode = "core"
    /\ LET r == IF SlotKind(sync.config, sync.idx) = BlueskyKind
                THEN FetchAuthorFeedResult(response)
                ELSE IF SlotKind(sync.config, sync.idx) = LeafletKind
                THEN LeafletFetchResult(response)
                ELSE FetchFeedResult(response)
           seen == [sync EXCEPT !.response = ResponseSeen(response)]
       IN  IF r = "Ok"
           THEN /\ items' = items
                /\ sync' = [seen EXCEPT !.pc = "entries"]
           ELSE /\ items' = RowsAfterError(items, sync.written)
                /\ sync' = PropagateError(Failed(seen, r), r)
    /\ UNCHANGED <<call, op, like, tsq>>

(* One iteration of `for entry in feed.entries` of a feed fetcher; the     *)
(* upsert may return a Storage error.                                      *)
ProcessFeedEntry(entry, storage_ok) ==
    /\ sync.pc = "entries" /\ sync.mode = "core"
    /\ SlotKind(sync.config, sync.idx) # BlueskyKind
    /\ sync.processed < MaxFeed
    /\ LET kind == SlotKind(sync.config, sync.idx)
           cfg == Unwrap(SlotConfig(sync.config, sync.idx))
           item == IF kind = SubstackKind THEN SubstackItem(cfg, entry)
                   ELSE IF kind = LeafletKind THEN LeafletItem(cfg, entry)
                   ELSE BearBlogItem(cfg, entry)
       IN  IF storage_ok
           THEN /\ items' = InsertOrReplaceRows(items, item)
                /\ sync' = Upserted(sync, items, items', item, "absent")
           ELSE /\ items' = RowsAfterError(items, sync.written)
                /\ sync' = PropagateError(Failed(sync, "Storage"), "Storage")
    /\ UNCHANGED <<call, op, like, tsq>>

(* One iteration of `for feed_post in response.feed` of BlueskyFetcher.    *)
ProcessBlueskyEntry(feed_post, storage_ok) ==
    /\ sync.pc = "entries" /\ sync.mode = "core"
    /\ SlotKind(sync.config, sync.idx) = BlueskyKind
    /\ sync.processed < MaxFeed
    /\ LET cfg == Unwrap(SlotConfig(sync.config, sync.idx))
       IN  IF ~IsOriginalPost(feed_post)
           THEN /\ items' = items
                /\ sync' = Skipped(sync, feed_post)
           ELSE IF AtUriToUrl(Unwrap(feed_post.uri), feed_post.handle) = None
           THEN /\ items' = RowsAfterError(items, sync.written)
                /\ sync' = PropagateError(Failed(sync, "Parse"), "Parse")
           ELSE IF ~storage_ok
           THEN /\ items' = RowsAfterError(items, sync.written)
                /\ sync' = PropagateError(Failed(sync, "Storage"), "Storage")
           ELSE /\ items' = InsertOrReplaceRows(items, BlueskyItem(cfg, feed_post))
                /\ sync' = Upserted(sync, items, items', BlueskyItem(cfg, feed_post),
                                    feed_post.reason)
    /\ UNCHANGED <<call, op, like, tsq>>

(* The feed is exhausted: the fetcher's sync returns Ok(()).               *)
FinishSource ==
    /\ sync.pc = "entries" /\ sync.mode = "core"
    /\ sync' = [AfterSyncOk(sync) EXCEPT !.response = NoResponse]
    /\ UNCHANGED <<call, items, op, like, tsq>>

(* Past the last block: Ok(synced_count).                                  *)
ReturnCount ==
    /\ sync.pc = "select" /\ sync.mode = "core"
    /\ sync.idx > SlotCount(sync.config)
    /\ sync' = [sync EXCEPT !.pc = "returned", !.result = OkResult(sync.synced_count)]
    /\ UNCHANGED <<call, items, op, like, tsq>>

(* The worker's sync_bluesky(config, db) is entered.                       *)
WorkerSyncBluesky(config) ==
    /\ sync.pc = "idle"
    /\ sync' = [NoSync EXCEPT !.pc = "fetch", !.mode = "worker",
                              !.config = SourcesConfig(None, Some(config), <<>>, <<>>),
                              !.idx = 2, !.invoked = <<2>>]
    /\ UNCHANGED <<call, items, op, like, tsq>>

(* send, resp.json and json["feed"].as_array: the status is not looked at. *)
WorkerFetchAuthorFeed(response) ==
    /\ sync.pc = "fetch" /\ sync.mode = "worker"
    /\ sync' = IF response.sent /\ response.body_parses
               THEN [sync EXCEPT !.pc = "entries"]
               ELSE [Failed(sync, "worker") EXCEPT !.pc = "returned",
                                                   !.result = ErrResult("worker")]
    /\ UNCHANGED <<call, items, op, like, tsq>>

(* One iteration of `for item in feed` of the worker's sync_bluesky; the   *)
(* statement may fail.                                                     *)
WorkerProcessBlueskyEntry(feed_post, storage_ok) ==
    /\ sync.pc = "entries" /\ sync.mode = "worker"
    /\ sync.processed < MaxFeed
    /\ LET cfg == Unwrap(sync.config.bluesky)
       IN  IF WorkerReasonPresent(feed_post)
           THEN /\ items' = items
                /\ sync' = Skipped(sync, feed_post)
           ELSE IF feed_post.uri = None \/ ~storage_ok
           THEN /\ items' = items
                /\ sync' = [Failed(sync, "worker") EXCEPT
                               !.pc = "returned", !.result = ErrResult("worker")]
           ELSE /\ items' = InsertOrReplaceRows(items, WorkerBlueskyItem(cfg, feed_post))
                /\ sync' = [Upserted(sync, items, items',
                                     WorkerBlueskyItem(cfg, feed_post),
                                     feed_post.reason)
                               EXCEPT !.synced_count = @ + 1]
    /\ UNCHANGED <<call, op, like, tsq>>

(* The feed is exhausted: Ok(count).                                       *)
WorkerFinishBluesky ==
    /\ sync.pc = "entries" /\ sync.mode = "worker"
    /\ sync' = [sync EXCEPT !.pc = "returned", !.result = OkResult(sync.synced_count)]
    /\ UNCHANGED <<call, items, op, like, tsq>>

----------------------------------------------------------------------------
(* Inputs of the sync specification.                                       *)

MaxList == 1

SubstackUrls == {<<"https://", "sub", "/">>}

Handles == {<<"h1">>}

PublicationIds == {<<"pub1">>}

PublicationUrl == <<"https://", "pub">>

SubstackConfigs == {SubstackConfig(e, u) : e \in BOOLEAN, u \in SubstackUrls}

BlueskyConfigs == {BlueskyConfig(e, h) : e \in BOOLEAN, h \in Handles}

LeafletConfigs ==
    {LeafletConfig(e, i, PublicationUrl) : e \in BOOLEAN, i \in PublicationIds}

BearBlogConfigs ==
    {BearBlogConfig(e, i, PublicationUrl) : e \in BOOLEAN, i \in PublicationIds}

(* Configurations: at most one Leaflet publication, up to MaxList BearBlog *)
(* blogs.                                                                  *)
SyncConfigs ==
    {SourcesConfig(s, b, l, r) :
        s \in OptionOf(SubstackConfigs), b \in OptionOf(BlueskyConfigs),
        l \in {<<>>} \cup {<<c>> : c \in LeafletConfigs},
        r \in SeqsUpTo(BearBlogConfigs, MaxList)}

KindFilters == OptionOf({SubstackKind, BlueskyKind, LeafletKind, BearBlogKind})

SourceIdFilters == OptionOf({<<"sub">>, <<"h1">>, <<"pub1">>})

EntryIds == {<<"e1">>, <<"e2">>}

(* Entries a feed can carry: two ids, one of them with two titles.         *)
FeedEntries ==
    {FeedEntry(i, None, None, None, None, None, Some(36), None) : i \in EntryIds}
      \cup {FeedEntry(<<"e1">>, None, Some(<<"a">>), None, None, None, Some(36), None)}

PostUri == <<"at:", "/", "/", "did", "/", "app.bsky.feed.post", "/", "rk1">>

BareKey == <<"rk1">>

Reasons == {"absent", "null", "repost"}

(* Posts an author feed can carry: a well-formed URI under each reason and *)
(* with or without text, a malformed URI with and without a repost reason. *)
FeedViewPosts ==
    {FeedViewPost(r, Some(PostUri), <<"h1">>, None, Some(ZuluText(36))) : r \in Reasons}
      \cup {FeedViewPost("absent", Some(PostUri), <<"h1">>, Some(<<"a">>),
                         Some(ZuluText(36)))}
      \cup {FeedViewPost(r, Some(BareKey), <<"h1">>, None, Some(ZuluText(36))) :
                r \in {"absent", "repost"}}

(* The worker reads the JSON untyped, so a post may lack its uri, or its   *)
(* record the createdAt.                                                   *)
WorkerFeedViewPosts ==
    FeedViewPosts
      \cup {FeedViewPost(r, None, <<"h1">>, None, None) : r \in Reasons}
      \cup {FeedViewPost("absent", Some(PostUri), <<"h1">>, None, None)}

----------------------------------------------------------------------------
(* The specifications.                                                     *)

NoCall == [fn |-> "none"]

NoLike ==
    [phase |-> "idle", query |-> <<>>, title |-> None, summary |-> None, returned |-> FALSE]

NoTsq ==
    [phase |-> "idle", path |-> "", rawPublished |-> <<>>, surface |-> "", rawSince |-> <<>>,
     published_at |-> <<>>, since |-> <<>>, returned |-> FALSE]

Init ==
    /\ items = {}
    /\ op = NoOp
    /\ like = NoLike
    /\ tsq = NoTsq
    /\ sync = NoSync
    /\ call = NoCall

(* The storage layer under arbitrary calls of its three operations.        *)
NextStore ==
    \/ \E item \in StoreItems : InsertOrReplaceItem(item)
    \/ \E filter \in StoreFilters : ListItems(filter)
    \/ \E id \in StoreIds : GetItem(id)

SpecStore == Init /\ [][NextStore]_vars

----------------------------------------------------------------------------
(* Claims about the storage layer.                                         *)

SamePair(r, item) == r.source_kind = item.source_kind /\ r.id = item.id

OneRowPerPair ==
    \A r1, r2 \in items : SamePair(r1, r2) => r1 = r2

UpsertStep == op'.name = "insert_or_replace_item"

UpsertKeepsOneLatestRow ==
    UpsertStep =>
        LET item == Unwrap(op'.item)
        IN  /\ {r \in items' : SamePair(r, item)} = {item}
            /\ (\E r \in items : SamePair(r, item))
                  => Cardinality(items') = Cardinality(items)

(* C1: after any sequence of insert_or_replace_item calls the table holds  *)
(* at most one row per (source_kind, id) pair, and an upsert of a pair     *)
(* that is already stored leaves the row count unchanged and leaves that   *)
(* pair's single row equal, field for field, to the item just upserted.    *)
C1_UpsertIdempotent == []OneRowPerPair /\ [][UpsertKeepsOneLatestRow]_vars

(* C1 witness: the last call upserted an item whose pair was stored with   *)
(* other field values, next to a row of another id.                        *)
C1_Witness ==
    /\ op.name = "insert_or_replace_item"
    /\ op.had = "same pair, other fields"
    /\ Cardinality(items) = 2
    /\ Unwrap(op.item) \in items

(* C2: an upsert of (kind B, id X) neither removes nor alters a stored row *)
(* with the same id X and another source kind A.                           *)
C2_UpsertKeyedByPair ==
    [][UpsertStep =>
          \A r \in items :
              (r.id = Unwrap(op'.item).id
                 /\ r.source_kind # Unwrap(op'.item).source_kind)
              => r \in items']_vars

(* q occurs in text as a contiguous substring, letters compared up to      *)
(* ASCII case (the choice the spec leaves to the implementation).          *)
Contains(text, q) ==
    \E i \in 0..(Len(text) - Len(q)) :
        \A k \in 1..Len(q) : Fold(text[i + k]) = Fold(q[k])

FieldContains(field, q) == IsSome(field) /\ Contains(Unwrap(field), q)

(* The constraints of a filter as the spec states them.                    *)
SatisfiesFilter(r, f) ==
    /\ IsSome(f.source_kind) => r.source_kind = Unwrap(f.source_kind)
    /\ IsSome(f.source_id) => r.source_id = Unwrap(f.source_id)
    /\ IsSome(f.since) => StrGeq(r.published_at, Unwrap(f.since))
    /\ IsSome(f.query) =>
          (FieldContains(r.title, Unwrap(f.query))
             \/ FieldContains(r.summary, Unwrap(f.query)))

(* C3: list_items returns exactly the stored items that satisfy every set  *)
(* constraint, each at most once, ordered by published_at descending; with *)
(* a limit it returns the first `limit` items of that filtered and ordered *)
(* list, without a limit the whole list.                                   *)
C3_ListIsFilteredOrderedCapped ==
    op.name = "list_items" =>
        LET f == op.filter
            rows == op.rows
            matching == {r \in items : SatisfiesFilter(r, f)}
        IN  /\ \A i, j \in 1..Len(rows) : i # j => rows[i] # rows[j]
            /\ Range(rows) \subseteq matching
            /\ \A i, j \in 1..Len(rows) :
                  i < j => StrGeq(rows[i].published_at, rows[j].published_at)
            /\ IF IsSome(f.limit)
               THEN /\ Len(rows) = Min(Unwrap(f.limit), Cardinality(matching))
                    /\ \A r \in matching \ Range(rows) : \A i \in 1..Len(rows) :
                          StrGeq(rows[i].published_at, r.published_at)
               ELSE Range(rows) = matching

----------------------------------------------------------------------------
(* The query predicate alone.                                              *)

InitLike ==
    /\ items = {}
    /\ op = NoOp
    /\ like \in LikeInputs
    /\ tsq = NoTsq
    /\ sync = NoSync
    /\ call = NoCall

NextLike == EvalQuery

SpecLike == InitLike /\ [][NextLike]_vars

(* C6: with `query` set to q, an item is returned iff q occurs as a        *)
(* contiguous substring of its title or of its summary; an item with       *)
(* neither field never matches; this for every q, also one containing '%'  *)
(* or '_'.                                                                 *)
C6_QueryIsSubstringMatch ==
    like.phase = "done" =>
        (like.returned <=>
            (FieldContains(like.title, like.query)
               \/ FieldContains(like.summary, like.query)))

----------------------------------------------------------------------------
(* The since bound alone.                                                  *)

InitSince ==
    /\ items = {}
    /\ op = NoOp
    /\ like = NoLike
    /\ tsq \in SinceInputs
    /\ sync = NoSync
    /\ call = NoCall

NextSince == StorePublishedAt \/ ListSince

SpecSince == InitSince /\ [][NextSince]_vars

(* C5: the since filter is an inclusive chronological lower bound: for     *)
(* every published_at a sync pass can store and every since value a query  *)
(* surface passes to storage, the item is returned iff its publication     *)
(* instant is at or after the since instant.                               *)
C5_SinceIsChronological ==
    tsq.phase = "listed" =>
        (tsq.returned <=> ParseRfc3339(tsq.published_at) >= ParseRfc3339(tsq.since))

----------------------------------------------------------------------------
(* A sync run from its entry to its return.                                *)

NextSync ==
    \/ /\ sync.pc = "idle"
       /\ \E c \in SyncConfigs, k \in KindFilters, s \in SourceIdFilters :
             SyncAllSources(c, k, s)
    \/ SkipSource
    \/ InvokeSync
    \/ \E response \in Responses : FetchSource(response)
    \/ \E entry \in FeedEntries, ok \in BOOLEAN : ProcessFeedEntry(entry, ok)
    \/ \E post \in FeedViewPosts, ok \in BOOLEAN : ProcessBlueskyEntry(post, ok)
    \/ FinishSource
    \/ ReturnCount
    \/ /\ sync.pc = "idle"
       /\ \E c \in BlueskyConfigs : WorkerSyncBluesky(c)
    \/ \E response \in Responses : WorkerFetchAuthorFeed(response)
    \/ \E post \in WorkerFeedViewPosts, ok \in BOOLEAN :
          WorkerProcessBlueskyEntry(post, ok)
    \/ WorkerFinishBluesky

SpecSync == Init /\ [][NextSync]_vars

----------------------------------------------------------------------------
(* Claims about the sync run.                                              *)

(* C4, as stated: a feed entry with a repost reason is never stored: no    *)
(* item whose id is the URI of such an entry has been upserted by the      *)
(* pass that read it.                                                      *)
C4_RepostUriNeverUpserted ==
    \A u \in sync.reposts :
        IsSome(u) => \A w \in sync.written : w.id # Unwrap(u)

EntryStep == sync'.processed = sync.processed + 1

(* C4, amended: a pass of BlueskyFetcher::sync or of the worker's          *)
(* sync_bluesky makes no upsert from an entry with a repost reason: the    *)
(* iteration that reads such an entry skips it and leaves the table as it  *)
(* was.  (An item with the entry's URI is upserted only from another entry *)
(* of the feed that carries the URI without a reason.)                     *)
C4_RepostEntryNeverUpserted ==
    [][(EntryStep /\ sync'.last.reason = "repost")
          => (sync'.last.step = "skipped" /\ items' = items)]_vars

(* C4 witness: a core pass has returned after reading a repost of a        *)
(* well-formed URI, and stored nothing.                                    *)
C4_Witness ==
    /\ sync.mode = "core" /\ sync.pc = "returned" /\ sync.result.tag = "ok"
    /\ Some(PostUri) \in sync.reposts
    /\ sync.written = {} /\ items = {}

Occurrences(s, x) == Cardinality({k \in 1..Len(s) : s[k] = x})

Slots == 1..SlotCount(sync.config)

(* The source id under which a configured source's items are stored.       *)
ResolvedSourceId(config, i) ==
    LET cfg == Unwrap(SlotConfig(config, i))
        entry == CHOOSE e \in FeedEntries : TRUE
        post == CHOOSE p \in FeedViewPosts : p.uri = Some(PostUri)
    IN  CASE SlotKind(config, i) = SubstackKind -> SubstackItem(cfg, entry).source_id
          [] SlotKind(config, i) = BlueskyKind -> BlueskyItem(cfg, post).source_id
          [] SlotKind(config, i) = LeafletKind -> LeafletItem(cfg, entry).source_id
          [] SlotKind(config, i) = BearBlogKind -> BearBlogItem(cfg, entry).source_id

(* A configured source instance is selected by the filters of the call.    *)
Selected(i) ==
    /\ IsSome(SlotConfig(sync.config, i))
    /\ Unwrap(SlotConfig(sync.config, i)).enabled
    /\ (sync.kind = None \/ sync.kind = Some(SlotKind(sync.config, i)))
    /\ (sync.source_id = None
          \/ sync.source_id = Some(ResolvedSourceId(sync.config, i)))

CoreReturned == sync.mode = "core" /\ sync.pc = "returned"

FailedBefore(i) == IsSome(sync.failure) /\ Unwrap(sync.failure).slot < i

C8_StopsAtFirstFailure ==
    /\ []((sync.mode = "core" /\ IsSome(sync.failure)) =>
            /\ sync.pc = "returned"
            /\ sync.result = ErrResult(Unwrap(sync.failure).error)
            /\ sync.invoked[Len(sync.invoked)] = Unwrap(sync.failure).slot)
    /\ [][(sync.mode = "core" /\ IsSome(sync.failure))
             => sync'.invoked = sync.invoked]_vars

(* C8 witness: the second invoked sync failed while a selected instance    *)
(* was still to come.                                                      *)
C8_Witness ==
    /\ CoreReturned /\ IsSome(sync.failure) /\ Len(sync.invoked) = 2
    /\ \E i \in Slots : Selected(i) /\ FailedBefore(i)

Failures == IF IsSome(sync.failure) THEN 1 ELSE 0

C10_FailureKeepsEveryUpsert ==
    /\ [](IsSome(sync.failure) =>
            /\ sync.result = ErrResult(Unwrap(sync.failure).error)
            /\ ~sync.lost
            /\ sync.written \subseteq items)
    /\ [][IsSome(sync.failure) => items' = items]_vars

(* C10, amended: when a sync fails, it returns that error, the failure     *)
(* changes no row, for every id upserted before the failure by this run    *)
(* the table still holds the item of the latest such upsert, field for     *)
(* field, and no entry after the failing one is upserted.                  *)
C10_FailureKeepsLatestUpserts ==
    /\ [](IsSome(sync.failure) =>
            /\ sync.pc = "returned"
            /\ sync.result = ErrResult(Unwrap(sync.failure).error)
            /\ sync.written \subseteq items)
    /\ [][IsSome(sync'.failure) => items' = items]_vars

(* C10 witness: the second source of a run failed at its second entry,     *)
(* after the run had stored two items.                                     *)
C10_Witness ==
    /\ CoreReturned /\ IsSome(sync.failure) /\ Len(sync.invoked) = 2
    /\ Unwrap(sync.failure).processed = 1
    /\ Cardinality(sync.written) = 2
    /\ sync.written \subseteq items

----------------------------------------------------------------------------
(* The feed fetchers whose code is at hand, while one of them is the       *)
(* fetcher of the slot the run stands at.                                  *)
FeedFetcherAtSlot ==
    /\ sync.mode = "core"
    /\ sync.idx \in 1..SlotCount(sync.config)
    /\ SlotKind(sync.config, sync.idx) \in {SubstackKind, BearBlogKind}

(* C11: right after the feed GET of the Substack or BearBlog fetcher has   *)
(* answered with a non-2xx status, the fetcher's sync has failed with a    *)
(* Fetch or Parse error, before it read a single entry of that response.   *)
C11_NonSuccessStatusAborts ==
    (FeedFetcherAtSlot /\ sync.response.status = "error")
        => /\ sync.pc = "returned"
           /\ sync.result.tag = "err"
           /\ sync.result.error \in {"Fetch", "Parse"}
           /\ IsSome(sync.failure)
           /\ Unwrap(sync.failure).stage = "fetch"

(* C12: when the body received by the Substack or BearBlog fetcher is not  *)
(* a feed, sync has returned a Parse error raised by fetch_feed, before    *)
(* any entry was read, and the step that received the body left the table  *)
(* as it was.                                                              *)
C12_UnparseableBodyIsParseError ==
    /\ []((FeedFetcherAtSlot /\ sync.response.body = "garbage")
            => /\ sync.pc = "returned"
               /\ sync.result = ErrResult("Parse")
               /\ IsSome(sync.failure)
               /\ Unwrap(sync.failure).stage = "fetch"
               /\ Unwrap(sync.failure).processed = 0)
    /\ [][(sync.mode = "core" /\ sync.pc = "fetch"
             /\ SlotKind(sync.config, sync.idx) \in {SubstackKind, BearBlogKind}
             /\ sync'.response.body = "garbage")
            => items' = items]_vars

(* The BearBlog fetcher returned a Parse error on a body that is no feed,  *)
(* after the Substack fetcher of the same run had stored an item.          *)
C12_Witness ==
    /\ FeedFetcherAtSlot
    /\ SlotKind(sync.config, sync.idx) = BearBlogKind
    /\ sync.response.body = "garbage"
    /\ sync.pc = "returned"
    /\ sync.result = ErrResult("Parse")
    /\ items # {}

(* C13: BlueskyFetcher::sync fails with a Parse error only on the response *)
(* as a whole, never while it maps the posts of a parsed response.         *)
C13_MalformedPostIsSkipped ==
    (/\ sync.mode = "core"
     /\ IsSome(sync.failure)
     /\ SlotKind(sync.config, Unwrap(sync.failure).slot) = BlueskyKind
     /\ Unwrap(sync.failure).stage = "entries")
        => Unwrap(sync.failure).error # "Parse"

(* C14: every stored item has a non-empty url and a non-empty              *)
(* published_at.                                                           *)
C14_StoredItemsHaveUrlAndPublishedAt ==
    \A r \in items : r.url # <<>> /\ r.published_at # <<>>

----------------------------------------------------------------------------
(* The per-post helpers of BlueskyFetcher on their own: Init draws a post  *)
(* text or a post URI, the one step derives the title (or panics) or       *)
(* converts the URI.                                                       *)

MaxAscii == 101

MaxWide == 3

Repeat(c, n) == [i \in 1..n |-> c]

(* Texts of up to MaxAscii ASCII characters followed by up to MaxWide      *)
(* two-byte characters.                                                    *)
TitleTexts ==
    {Repeat("a", k) \o Repeat("U+00E9", m) : k \in 0..MaxAscii, m \in 0..MaxWide}

MaxUriLen == 8

(* Post URIs as sequences of the pieces "at:", "/" and a name.             *)
PostUris == SeqsUpTo({"at:", "/", "x"}, MaxUriLen)

(* BlueskyFetcher::sync on a response that carries one post, the storage  *)
(* accepting what it is given: how the call returns and what it upserts.   *)
CoreBlueskySync(config, response, feed_post) ==
    IF FetchAuthorFeedResult(response) # "Ok" THEN [result |-> "err", written |-> {}]
    ELSE IF ~IsOriginalPost(feed_post) THEN [result |-> "ok", written |-> {}]
    ELSE IF AtUriToUrl(Unwrap(feed_post.uri), feed_post.handle) = None
    THEN [result |-> "err", written |-> {}]
    ELSE [result |-> "ok", written |-> {BlueskyItem(config, feed_post)}]

(* The worker's sync_bluesky on the same.                                  *)
WorkerBlueskySync(config, response, feed_post) ==
    IF ~(response.sent /\ response.body_parses) THEN [result |-> "err", written |-> {}]
    ELSE IF WorkerReasonPresent(feed_post) THEN [result |-> "ok", written |-> {}]
    ELSE IF feed_post.uri = None THEN [result |-> "err", written |-> {}]
    ELSE [result |-> "ok", written |-> {WorkerBlueskyItem(config, feed_post)}]

(* Responses that arrive at both, and posts both can read.                 *)
PairCalls ==
    {[fn |-> "bluesky_pair", config |-> c, response |-> r, feed_post |-> p,
      outcome |-> "pending",
      core |-> [result |-> "none", written |-> {}],
      worker |-> [result |-> "none", written |-> {}]] :
        c \in {BlueskyConfig(TRUE, h) : h \in Handles},
        r \in {x \in Responses : x.runtime_ok},
        p \in {x \in WorkerFeedViewPosts : IsSome(x.uri)}}

InitPost ==
    /\ items = {}
    /\ op = NoOp
    /\ like = NoLike
    /\ tsq = NoTsq
    /\ sync = NoSync
    /\ call \in {[fn |-> "create_title", text |-> t, outcome |-> "pending",
                   title |-> <<>>] : t \in TitleTexts}
               \cup {[fn |-> "at_uri_to_url", uri |-> u, handle |-> h,
                      outcome |-> "pending", url |-> None] :
                         u \in PostUris, h \in Handles}
               \cup PairCalls

DeriveTitle ==
    /\ call.fn = "create_title" /\ call.outcome = "pending"
    /\ call' = IF CreateTitlePanics(call.text)
               THEN [call EXCEPT !.outcome = "panicked"]
               ELSE [call EXCEPT !.outcome = "returned",
                                 !.title = CreateTitle(call.text)]
    /\ UNCHANGED <<items, op, like, tsq, sync>>

ConvertUri ==
    /\ call.fn = "at_uri_to_url" /\ call.outcome = "pending"
    /\ call' = [call EXCEPT !.outcome = "returned",
                            !.url = AtUriToUrl(call.uri, call.handle)]
    /\ UNCHANGED <<items, op, like, tsq, sync>>

(* The same response is given to the core fetcher and to the worker.       *)
SyncBlueskyPair ==
    /\ call.fn = "bluesky_pair" /\ call.outcome = "pending"
    /\ call' = [call EXCEPT
                  !.outcome = "returned",
                  !.core = CoreBlueskySync(call.config, call.response, call.feed_post),
                  !.worker = WorkerBlueskySync(call.config, call.response, call.feed_post)]
    /\ UNCHANGED <<items, op, like, tsq, sync>>

NextPost == DeriveTitle \/ ConvertUri \/ SyncBlueskyPair

SpecPost == InitPost /\ [][NextPost]_vars

(* C15: title derivation returns for every text; the title is the text     *)
(* itself when the text has at most 100 characters, else its first 97      *)
(* characters followed by "...", 100 characters in all.                    *)
C15_TitleIsTextOrFirst97Chars ==
    (call.fn = "create_title" /\ call.outcome # "pending")
        => /\ call.outcome = "returned"
           /\ call.title = IF Len(call.text) <= 100 THEN call.text
                            ELSE SubSeq(call.text, 1, 97) \o <<".", ".", ".">>
           /\ Len(call.text) > 100 => Len(call.title) = 100

(* at://<authority>/<collection>/<record-key>: split at "/", the pieces    *)
(* are "at:", an empty one, and three non-empty ones.                      *)
HasAtUriStructure(uri) ==
    LET parts == Split(uri, "/")
    IN  /\ Len(parts) = 5
        /\ parts[1] = <<"at:">>
        /\ parts[2] = <<>>
        /\ \A i \in 3..5 : parts[i] # <<>>

(* C16: at_uri_to_url returns the profile URL of the record key for a URI  *)
(* of the form at://<authority>/<collection>/<record-key>, and a Parse     *)
(* error for every other URI.                                              *)
C16_OnlyAtUrisConvert ==
    (call.fn = "at_uri_to_url" /\ call.outcome = "returned")
        => call.url = IF HasAtUriStructure(call.uri)
                      THEN Some(ProfileUrl(call.handle, Split(call.uri, "/")[5]))
                      ELSE None

----------------------------------------------------------------------------
(* The read surfaces and the limit they hand to storage.                   *)

DEFAULT_LIMIT == 20

(* ensure_positive_limit, as an Option: None is Err(InvalidArgument).      *)
EnsurePositiveLimit(limit) == IF limit = 0 THEN None ELSE Some(limit)

(* The outcome of a read: the error it was rejected with, or the           *)
(* ListFilter.limit that reached list_items / query_items.                 *)
Rejected == [outcome |-> "InvalidArgument", filter_limit |-> None]

Listed(filter_limit) == [outcome |-> "listed", filter_limit |-> filter_limit]

(* handle_list: `limit: usize` goes through ensure_positive_limit.         *)
HandleListLimit(limit) ==
    IF IsSome(EnsurePositiveLimit(Unwrap(limit)))
    THEN Listed(EnsurePositiveLimit(Unwrap(limit))) ELSE Rejected

(* handle_export with ensure_optional_limit: no limit stays no limit.      *)
HandleExportLimit(limit) ==
    IF limit = None THEN Listed(None)
    ELSE IF IsSome(EnsurePositiveLimit(Unwrap(limit))) THEN Listed(limit)
    ELSE Rejected

(* FeedQuery::into_filter of the server's /api/feed and /rss.xml.          *)
IntoFilterLimit(limit) ==
    IF limit = None THEN Listed(Some(DEFAULT_LIMIT))
    ELSE IF IsSome(EnsurePositiveLimit(Unwrap(limit))) THEN Listed(limit)
    ELSE Rejected

(* The worker's handle_feed: Some(params.limit.unwrap_or(20)).             *)
WorkerFeedLimit(limit) ==
    Listed(IF limit = None THEN Some(20) ELSE limit)

ReadSurfaces == {"cli_list", "cli_export", "server_feed", "server_rss", "worker_feed"}

ReadLimit(surface, limit) ==
    CASE surface = "cli_list" -> HandleListLimit(limit)
      [] surface = "cli_export" -> HandleExportLimit(limit)
      [] surface \in {"server_feed", "server_rss"} -> IntoFilterLimit(limit)
      [] surface = "worker_feed" -> WorkerFeedLimit(limit)

MaxReqLimit == 2

(* A read request: the surface and the limit given; `pai list` always has  *)
(* one (clap supplies its default).                                        *)
ReadRequests ==
    {r \in {[fn |-> "read", surface |-> sf, limit |-> l, outcome |-> "pending",
             filter_limit |-> None] :
                sf \in ReadSurfaces, l \in OptionOf(0..MaxReqLimit)} :
        r.surface = "cli_list" => r.limit # None}

HandleRead ==
    /\ call.fn = "read" /\ call.outcome = "pending"
    /\ call' = [call EXCEPT !.outcome = ReadLimit(call.surface, call.limit).outcome,
                            !.filter_limit =
                                ReadLimit(call.surface, call.limit).filter_limit]
    /\ UNCHANGED <<items, op, like, tsq, sync>>

(* PaiError: the variant and the text it carries.                          *)
PaiErrorKinds ==
    {"UnknownSourceKind", "InvalidArgument", "Storage", "Fetch", "Parse", "Config", "Io"}

PaiErrors == [kind : PaiErrorKinds, text : {"t1", "t2"}]

(* Display of PaiError (thiserror): the variant's prefix, then its text.   *)
DisplayError(err) ==
    CASE err.kind = "UnknownSourceKind" -> <<"Unknown source kind: ", err.text>>
      [] err.kind = "InvalidArgument" -> <<"Invalid argument: ", err.text>>
      [] err.kind = "Storage" -> <<"Storage error: ", err.text>>
      [] err.kind = "Fetch" -> <<"Fetch error: ", err.text>>
      [] err.kind = "Parse" -> <<"Parse error: ", err.text>>
      [] err.kind = "Config" -> <<"Configuration error: ", err.text>>
      [] err.kind = "Io" -> <<"IO error: ", err.text>>

(* impl From<PaiError> for ApiError, then into_response: the status and    *)
(* the `error` member of the JSON body.                                    *)
ApiErrorFrom(err) ==
    IF err.kind = "InvalidArgument"
    THEN [status |-> 400, error |-> <<err.text>>]
    ELSE [status |-> 500, error |-> DisplayError(err)]

(* Two failing requests, one after the other.                              *)
ErrorCalls ==
    {[fn |-> "error", errors |-> <<e1, e2>>, responses |-> <<>>] :
        e1 \in PaiErrors, e2 \in PaiErrors}

(* A handler returns Err(PaiError) through `?`; the response is built.     *)
RespondToError ==
    /\ call.fn = "error" /\ Len(call.responses) < Len(call.errors)
    /\ call' = [call EXCEPT !.responses =
                    Append(@, ApiErrorFrom(call.errors[Len(@) + 1]))]
    /\ UNCHANGED <<items, op, like, tsq, sync>>

(* extract_domain: the schemes trimmed off the front, then what precedes   *)
(* the first "/" and, of that, what precedes the first ":".                *)
ExtractDomain(url) ==
    LET rest == TrimStartMatches(TrimStartMatches(url, "https://"), "http://")
    IN  Split(Split(rest, "/")[1], ":")[1]

(* An extract_root_domain that takes a single label for a root.            *)
ExtractRootDomainOfAnyHost(domain) ==
    LET parts == Split(domain, ".")
    IN  IF Len(parts) >= 2
        THEN Some(parts[Len(parts) - 1] \o <<".">> \o parts[Len(parts)])
        ELSE Some(parts[Len(parts)])

(* extract_root_domain: the last two of the pieces between dots, if there  *)
(* are two.                                                                *)
ExtractRootDomain(domain) ==
    LET parts == Split(domain, ".")
    IN  IF Len(parts) >= 2
        THEN Some(parts[Len(parts) - 1] \o <<".">> \o parts[Len(parts)])
        ELSE None

(* CorsConfig { allowed_origins, dev_key }                                 *)
CorsConfig(allowed_origins, dev_key) ==
    [allowed_origins |-> allowed_origins, dev_key |-> dev_key]

(* CorsConfig::is_origin_allowed: the loop returns true at the first entry *)
(* that matches.                                                           *)
IsOriginAllowed(config, origin) ==
    IF config.allowed_origins = <<>> THEN FALSE
    ELSE \E i \in 1..Len(config.allowed_origins) :
            LET allowed == config.allowed_origins[i]
                origin_root == ExtractRootDomain(ExtractDomain(origin))
                allowed_root == ExtractRootDomain(ExtractDomain(allowed))
            IN  \/ origin = allowed
                \/ IsSome(origin_root) /\ IsSome(allowed_root)
                      /\ origin_root = allowed_root

(* CorsConfig::is_dev_key_valid                                            *)
IsDevKeyValid(config, key) ==
    IsSome(config.dev_key) /\ IsSome(key) /\ config.dev_key = key

(* Origins: a scheme, a host of one to three labels, a port or none.       *)
OriginHosts ==
    {<<"localhost">>, <<"dt", ".", "dev">>, <<"pai", ".", "dt", ".", "dev">>,
     <<"dt", ".", "org">>}

Origins ==
    {<<scheme>> \o host \o port :
        scheme \in {"https://", "http://"}, host \in OriginHosts,
        port \in {<<>>, <<":", "4321">>}}

MaxAllowed == 2

OriginCalls ==
    {[fn |-> "is_origin_allowed", config |-> CorsConfig(a, None), origin |-> o,
      outcome |-> "pending", allowed |-> FALSE] :
        a \in SeqsUpTo(Origins, MaxAllowed), o \in Origins}

CheckOrigin ==
    /\ call.fn = "is_origin_allowed" /\ call.outcome = "pending"
    /\ call' = [call EXCEPT !.outcome = "returned",
                            !.allowed = IsOriginAllowed(call.config, call.origin)]
    /\ UNCHANGED <<items, op, like, tsq, sync>>

(* cors_middleware of the server: 403, the preflight answer it builds      *)
(* itself, or next.run(request).                                           *)
CorsMiddleware(config, request) ==
    LET is_authorized ==
            IF IsSome(request.dev_key) THEN IsDevKeyValid(config, request.dev_key)
            ELSE IF IsSome(request.origin)
                 THEN IsOriginAllowed(config, Unwrap(request.origin))
                 ELSE TRUE
    IN  IF request.method = "OPTIONS"
        THEN IF ~is_authorized THEN "forbidden" ELSE "preflight"
        ELSE IF IsSome(request.origin) /\ ~is_authorized THEN "forbidden"
             ELSE "handler"

(* The worker's is_cors_authorized.                                        *)
IsCorsAuthorized(config, request) ==
    IF IsSome(request.dev_key) /\ IsDevKeyValid(config, request.dev_key) THEN TRUE
    ELSE IF IsSome(request.origin)
         THEN IsOriginAllowed(config, Unwrap(request.origin))
         ELSE TRUE

(* The head of the worker's fetch: handle_preflight for OPTIONS, else the  *)
(* 403 or the router.                                                      *)
WorkerFetch(config, request) ==
    IF request.method = "OPTIONS"
    THEN IF ~IsCorsAuthorized(config, request) THEN "forbidden" ELSE "preflight"
    ELSE IF ~IsCorsAuthorized(config, request) THEN "forbidden" ELSE "handler"

(* Configurations with origin gating on: a non-empty allow-list or a dev   *)
(* key (run_server installs the middleware only then).                     *)
GateOrigins ==
    {<<"https://", "dt", ".", "dev">>, <<"https://", "pai", ".", "dt", ".", "dev">>,
     <<"https://", "dt", ".", "org">>}

GatedConfigs ==
    {c \in {CorsConfig(a, k) : a \in {<<>>} \cup {<<o>> : o \in GateOrigins},
                               k \in OptionOf({"k1"})} :
        c.allowed_origins # <<>> \/ IsSome(c.dev_key)}

HttpRequests ==
    [method : {"GET", "POST", "OPTIONS"}, origin : OptionOf(GateOrigins),
     dev_key : OptionOf({"k1", "k2"})]

GateCalls ==
    {[fn |-> "cors", surface |-> sf, config |-> c, request |-> r,
      outcome |-> "pending"] :
        sf \in {"server", "worker"}, c \in GatedConfigs, r \in HttpRequests}

(* A request meets the gate of the server or of the worker.                *)
GateRequest ==
    /\ call.fn = "cors" /\ call.outcome = "pending"
    /\ call' = [call EXCEPT !.outcome =
                    IF call.surface = "server"
                    THEN CorsMiddleware(call.config, call.request)
                    ELSE WorkerFetch(call.config, call.request)]
    /\ UNCHANGED <<items, op, like, tsq, sync>>

InitHttp ==
    /\ items = {}
    /\ op = NoOp
    /\ like = NoLike
    /\ tsq = NoTsq
    /\ sync = NoSync
    /\ call \in ReadRequests \cup ErrorCalls \cup OriginCalls \cup GateCalls

NextHttp == HandleRead \/ RespondToError \/ CheckOrigin \/ GateRequest

SpecHttp == InitHttp /\ [][NextHttp]_vars

(* C17: on every read surface a limit of 0 is rejected as InvalidArgument  *)
(* and never reaches storage.                                              *)
C17_ZeroLimitRejectedEverywhere ==
    (call.fn = "read" /\ call.outcome # "pending" /\ call.limit = Some(0))
        => call.outcome = "InvalidArgument" /\ call.filter_limit # Some(0)

(* C18: the response to an error other than InvalidArgument has status 500 *)
(* and a body that carries none of the error's text and is the same for    *)
(* any two such errors; InvalidArgument is answered with 400.              *)
C18_InternalErrorsAreGeneric ==
    call.fn = "error" =>
        /\ \A i \in 1..Len(call.responses) :
              IF call.errors[i].kind = "InvalidArgument"
              THEN call.responses[i].status = 400
              ELSE /\ call.responses[i].status = 500
                   /\ \A k \in 1..Len(call.responses[i].error) :
                         call.responses[i].error[k] # call.errors[i].text
        /\ \A i, j \in 1..Len(call.responses) :
              (call.errors[i].kind # "InvalidArgument"
                 /\ call.errors[j].kind # "InvalidArgument")
                  => call.responses[i].error = call.responses[j].error

(* The labels of an origin's host, read off its make-up (scheme, labels    *)
(* joined by dots, port), and whether two origins' last two labels agree.  *)
HostLabels(origin) ==
    LET afterScheme == Tail(origin)
        n == Len(afterScheme)
        end == IF \E i \in 1..n : afterScheme[i] = ":"
               THEN (CHOOSE i \in 1..n : afterScheme[i] = ":") - 1
               ELSE n
        IsLabel(x) == x # "."
    IN  SelectSeq(SubSeq(afterScheme, 1, end), IsLabel)

SameRootDomain(a, b) ==
    LET la == HostLabels(a)
        lb == HostLabels(b)
    IN  /\ Len(la) >= 2 /\ Len(lb) >= 2
        /\ la[Len(la) - 1] = lb[Len(lb) - 1]
        /\ la[Len(la)] = lb[Len(lb)]

(* C20: is_origin_allowed(origin) is true exactly when the allow-list is   *)
(* non-empty and one of its entries equals origin or has the same last two *)
(* host labels as origin; a host of a single label is allowed only by an   *)
(* entry equal to the origin.                                              *)
C20_AllowedIffExactOrSameRoot ==
    (call.fn = "is_origin_allowed" /\ call.outcome = "returned")
        => LET allowed_origins == call.config.allowed_origins
           IN  /\ call.allowed
                     = (/\ allowed_origins # <<>>
                        /\ \E i \in 1..Len(allowed_origins) :
                              \/ allowed_origins[i] = call.origin
                              \/ SameRootDomain(allowed_origins[i], call.origin))
               /\ Len(HostLabels(call.origin)) = 1
                     => call.allowed
                          = (\E i \in 1..Len(allowed_origins) :
                                allowed_origins[i] = call.origin)

(* An origin on a subdomain was allowed by an entry it does not equal,     *)
(* while the list also holds an entry of another root domain.              *)
C20_Witness ==
    /\ call.fn = "is_origin_allowed" /\ call.outcome = "returned"
    /\ call.allowed
    /\ Len(HostLabels(call.origin)) = 3
    /\ Len(call.config.allowed_origins) = 2
    /\ \A i \in 1..2 : call.config.allowed_origins[i] # call.origin
    /\ \E i \in 1..2 : ~SameRootDomain(call.config.allowed_origins[i], call.origin)

(* The requests the gate is to let through: a dev key equal to the         *)
(* configured one, an allowed Origin, or neither header.                   *)
MayPass(config, request) ==
    \/ IsSome(request.dev_key) /\ IsSome(config.dev_key)
          /\ request.dev_key = config.dev_key
    \/ IsSome(request.origin) /\ IsOriginAllowed(config, Unwrap(request.origin))
    \/ request.origin = None /\ request.dev_key = None

(* C19: with origin gating configured, a request reaches a route handler   *)
(* only if it may pass, and every request that may not pass is answered    *)
(* 403, whatever its method.                                               *)
C19_GateLetsOnlyAuthorizedPass ==
    (call.fn = "cors" /\ call.outcome # "pending")
        => /\ call.outcome = "handler" => MayPass(call.config, call.request)
           /\ ~MayPass(call.config, call.request) => call.outcome = "forbidden"

----------------------------------------------------------------------------
(* The string forms: SourceKind's Display and FromStr, and the export      *)
(* formats.  Init draws a kind to format and parse back, a text to parse,  *)
(* or a list of items and a format to export it in.                        *)

LowercaseLetters ==
    <<"a", "b", "c", "d", "e", "f", "g", "h", "i", "j", "k", "l", "m",
      "n", "o", "p", "q", "r", "s", "t", "u", "v", "w", "x", "y", "z">>

UppercaseLetters ==
    <<"A", "B", "C", "D", "E", "F", "G", "H", "I", "J", "K", "L", "M",
      "N", "O", "P", "Q", "R", "S", "T", "U", "V", "W", "X", "Y", "Z">>

(* char::to_lowercase / to_uppercase on the letters of the model.          *)
LowerChar(c) ==
    IF \E i \in 1..Len(UppercaseLetters) : UppercaseLetters[i] = c
    THEN LowercaseLetters[CHOOSE i \in 1..Len(UppercaseLetters) : UppercaseLetters[i] = c]
    ELSE c

UpperChar(c) ==
    IF \E i \in 1..Len(LowercaseLetters) : LowercaseLetters[i] = c
    THEN UppercaseLetters[CHOOSE i \in 1..Len(LowercaseLetters) : LowercaseLetters[i] = c]
    ELSE c

(* str::to_lowercase                                                       *)
ToLowercase(s) == [i \in 1..Len(s) |-> LowerChar(s[i])]

SourceKinds == {SubstackKind, BlueskyKind, LeafletKind, BearBlogKind}

(* impl Display for SourceKind: the name written for each variant.         *)
KindToString(kind) ==
    CASE kind = SubstackKind -> <<"s", "u", "b", "s", "t", "a", "c", "k">>
      [] kind = BlueskyKind -> <<"b", "l", "u", "e", "s", "k", "y">>
      [] kind = LeafletKind -> <<"l", "e", "a", "f", "l", "e", "t">>
      [] kind = BearBlogKind -> <<"b", "e", "a", "r", "b", "l", "o", "g">>

(* A from_str that matches the text as given.                              *)
KindFromStrExact(s) ==
    CASE s = <<"s", "u", "b", "s", "t", "a", "c", "k">> -> Some(SubstackKind)
      [] s = <<"b", "l", "u", "e", "s", "k", "y">> -> Some(BlueskyKind)
      [] s = <<"l", "e", "a", "f", "l", "e", "t">> -> Some(LeafletKind)
      [] s = <<"b", "e", "a", "r", "b", "l", "o", "g">> -> Some(BearBlogKind)
      [] OTHER -> None

(* impl FromStr for SourceKind, as an Option: None is                      *)
(* Err(UnknownSourceKind).                                                 *)
KindFromStr(s) ==
    CASE ToLowercase(s) = <<"s", "u", "b", "s", "t", "a", "c", "k">> -> Some(SubstackKind)
      [] ToLowercase(s) = <<"b", "l", "u", "e", "s", "k", "y">> -> Some(BlueskyKind)
      [] ToLowercase(s) = <<"l", "e", "a", "f", "l", "e", "t">> -> Some(LeafletKind)
      [] ToLowercase(s) = <<"b", "e", "a", "r", "b", "l", "o", "g">> -> Some(BearBlogKind)
      [] OTHER -> None

(* The spellings of a name in every letter casing.                         *)
Casings(name) ==
    {[i \in 1..Len(name) |-> IF i \in U THEN UpperChar(name[i]) ELSE name[i]] :
        U \in SUBSET (1..Len(name))}

(* Texts handed to from_str: every casing of every kind's name, and texts  *)
(* that name no kind.                                                      *)
KindTexts ==
    UNION {Casings(KindToString(k)) : k \in SourceKinds}
      \cup {<<>>, <<"i", "n", "v", "a", "l", "i", "d">>,
            <<"b", "l", "u", "e", "s", "k">>, <<"R", "S", "S">>}

KindCalls ==
    {[fn |-> "source_kind", phase |-> "kind", kind |-> Some(k), text |-> <<>>,
      parsed |-> None] : k \in SourceKinds}
      \cup {[fn |-> "source_kind", phase |-> "text", kind |-> None, text |-> t,
             parsed |-> None] : t \in KindTexts}

(* kind.to_string()                                                        *)
FormatKind ==
    /\ call.fn = "source_kind" /\ call.phase = "kind"
    /\ call' = [call EXCEPT !.phase = "text",
                            !.text = KindToString(Unwrap(call.kind))]
    /\ UNCHANGED <<items, op, like, tsq, sync>>

(* text.parse::<SourceKind>()                                              *)
ParseKind ==
    /\ call.fn = "source_kind" /\ call.phase = "text"
    /\ call' = [call EXCEPT !.phase = "parsed", !.parsed = KindFromStr(call.text)]
    /\ UNCHANGED <<items, op, like, tsq, sync>>

(* A serialised record: its members (JSON) or child elements (RSS) in      *)
(* order, each a name and the text it holds; JSON null is "null".          *)
Field(name, value) == [name |-> name, value |-> value]

JsonValue(option) == IF IsSome(option) THEN Unwrap(option) ELSE <<"null">>

(* serde's Serialize of Item: the ten fields in declaration order.         *)
JsonRecord(item) ==
    <<Field("id", item.id), Field("source_kind", <<item.source_kind>>),
      Field("source_id", item.source_id), Field("author", JsonValue(item.author)),
      Field("title", JsonValue(item.title)), Field("summary", JsonValue(item.summary)),
      Field("url", item.url), Field("content_html", JsonValue(item.content_html)),
      Field("published_at", item.published_at),
      Field("created_at", item.created_at)>>

(* format_rss_date: an RFC 3339 timestamp rewritten as RFC 2822, any other *)
(* text passed through.                                                    *)
FormatRssDate(value) ==
    IF Len(value) >= 5 /\ value[2] = "T"
    THEN <<"day ", value[1], " ", value[3], value[4], ":00:00 ">>
           \o (IF value[5] = "Z" THEN <<"+", "0", "0">> ELSE SubSeq(value, 5, 7))
           \o <<"0", "0">>
    ELSE value

(* An <item> whose guid is the item's url.                                 *)
RssRecordWithUrlAsGuid(item) ==
    <<Field("title", IF IsSome(item.title) THEN Unwrap(item.title)
                     ELSE IF IsSome(item.summary) THEN Unwrap(item.summary)
                     ELSE item.url),
      Field("link", item.url),
      Field("guid", item.url),
      Field("pubDate", FormatRssDate(item.published_at)),
      Field("author", IF IsSome(item.author) THEN Unwrap(item.author)
                      ELSE <<"Unknown">>),
      Field("description", IF IsSome(item.summary) THEN Unwrap(item.summary)
                           ELSE IF IsSome(item.content_html)
                                THEN Unwrap(item.content_html)
                                ELSE <<>>),
      Field("category", <<item.source_kind>>)>>

(* build_rss_channel: the <item> built for one Item.                       *)
RssRecord(item) ==
    <<Field("title", IF IsSome(item.title) THEN Unwrap(item.title)
                     ELSE IF IsSome(item.summary) THEN Unwrap(item.summary)
                     ELSE item.url),
      Field("link", item.url),
      Field("guid", item.id),
      Field("pubDate", FormatRssDate(item.published_at)),
      Field("author", IF IsSome(item.author) THEN Unwrap(item.author)
                      ELSE <<"Unknown">>),
      Field("description", IF IsSome(item.summary) THEN Unwrap(item.summary)
                           ELSE IF IsSome(item.content_html)
                                THEN Unwrap(item.content_html)
                                ELSE <<>>),
      Field("category", <<item.source_kind>>)>>

(* export_items: what is written for a list in a format, as the framing    *)
(* and the records in order.                                               *)
ExportOutput(list, format) ==
    CASE format = "json" ->
           [frame |-> "array", records |-> [i \in 1..Len(list) |-> JsonRecord(list[i])]]
      [] format = "ndjson" ->
           [frame |-> "lines", records |-> [i \in 1..Len(list) |-> JsonRecord(list[i])]]
      [] format = "rss" ->
           [frame |-> "channel", records |-> [i \in 1..Len(list) |-> RssRecord(list[i])]]

(* Items to export: a post with distinct id, url, title and summary; a     *)
(* Bluesky post whose title is its whole text; an entry without title or   *)
(* summary; an entry whose guid is its link.                               *)
ExportItems ==
    {Item(<<"e1">>, SubstackKind, <<"sub">>, None, Some(<<"t">>), Some(<<"s">>),
          <<"https://", "sub", "/", "p1">>, None, ZuluText(36), CreatedAt),
     Item(PostUri, BlueskyKind, <<"h1">>, Some(<<"h1">>), Some(<<"a">>), Some(<<"a">>),
          ProfileUrl(<<"h1">>, <<"rk1">>), None, ZuluText(36), CreatedAt),
     Item(<<"e2">>, BearBlogKind, <<"pub1">>, None, None, None,
          <<"https://", "pub", "/", "p2">>, None, <<"soon">>, CreatedAt),
     Item(<<"https://", "sub", "/", "p3">>, SubstackKind, <<"sub">>, None,
          Some(<<"u">>), None, <<"https://", "sub", "/", "p3">>, None,
          ToRfc3339(36, 1), CreatedAt)}

MaxExport == 2

ExportCalls ==
    {[fn |-> "export", list |-> l, format |-> f, done |-> FALSE,
      output |-> [frame |-> "none", records |-> <<>>]] :
        l \in SeqsUpTo(ExportItems, MaxExport), f \in {"json", "ndjson", "rss"}}

ExportList ==
    /\ call.fn = "export" /\ ~call.done
    /\ call' = [call EXCEPT !.done = TRUE,
                            !.output = ExportOutput(call.list, call.format)]
    /\ UNCHANGED <<items, op, like, tsq, sync>>

InitFormat ==
    /\ items = {}
    /\ op = NoOp
    /\ like = NoLike
    /\ tsq = NoTsq
    /\ sync = NoSync
    /\ call \in KindCalls \cup ExportCalls

NextFormat == FormatKind \/ ParseKind \/ ExportList

SpecFormat == InitFormat /\ [][NextFormat]_vars

(* A text spells a name up to the case of its letters.                     *)
IsCasingOf(text, name) ==
    /\ Len(text) = Len(name)
    /\ \A i \in 1..Len(name) : text[i] = name[i] \/ text[i] = UpperChar(name[i])

(* C23: to_string yields the lowercase name of the kind and parsing it     *)
(* gives the kind back; parse accepts the name of a kind in any letter     *)
(* casing, as that kind.                                                   *)
C23_SourceKindRoundTrips ==
    call.fn = "source_kind" =>
        /\ (IsSome(call.kind) /\ call.phase # "kind")
              => /\ call.text # <<>>
                 /\ \A i \in 1..Len(call.text) :
                       \E j \in 1..Len(LowercaseLetters) :
                           call.text[i] = LowercaseLetters[j]
        /\ (IsSome(call.kind) /\ call.phase = "parsed") => call.parsed = call.kind
        /\ call.phase = "parsed"
              => \A k \in SourceKinds :
                    IsCasingOf(call.text, KindToString(k)) => call.parsed = Some(k)

(* A name written in mixed case was parsed as its kind.                    *)
C23_Witness ==
    /\ call.fn = "source_kind" /\ call.phase = "parsed"
    /\ call.kind = None
    /\ call.parsed = Some(BearBlogKind)
    /\ \E i, j \in 1..Len(call.text) :
          /\ call.text[i] # LowerChar(call.text[i])
          /\ call.text[j] = LowerChar(call.text[j])

(* How many fields of a record hold a text, and how many bear a name.      *)
FieldsHolding(record, text) ==
    Cardinality({k \in 1..Len(record) : record[k].value = text})

FieldsNamed(record, names) ==
    {k \in 1..Len(record) : record[k].name \in names}

(* C24, as stated: an export has one record per item, in list order, and   *)
(* the item's id and its title each occur exactly once in the item's       *)
(* record.                                                                 *)
C24_IdAndTitleOccurOnce ==
    (call.fn = "export" /\ call.done)
        => /\ Len(call.output.records) = Len(call.list)
           /\ \A i \in 1..Len(call.list) :
                 /\ FieldsHolding(call.output.records[i], call.list[i].id) = 1
                 /\ IsSome(call.list[i].title)
                       => FieldsHolding(call.output.records[i],
                                        Unwrap(call.list[i].title)) = 1

(* C24, amended: an export has one record per item, in list order; each    *)
(* record has exactly one id field (JSON "id", RSS guid) and it holds the  *)
(* item's id, and exactly one title field, which holds the item's title    *)
(* when the item has one.                                                  *)
C24_OneIdFieldAndOneTitleField ==
    (call.fn = "export" /\ call.done)
        => /\ Len(call.output.records) = Len(call.list)
           /\ \A i \in 1..Len(call.list) :
                 LET record == call.output.records[i]
                     ids == FieldsNamed(record, {"id", "guid"})
                     titles == FieldsNamed(record, {"title"})
                 IN  /\ Cardinality(ids) = 1
                     /\ \A k \in ids : record[k].value = call.list[i].id
                     /\ Cardinality(titles) = 1
                     /\ IsSome(call.list[i].title)
                           => \A k \in titles :
                                 record[k].value = Unwrap(call.list[i].title)

(* Two different items, the first with a title and an id other than its    *)
(* url, were exported as RSS.                                              *)
C24_Witness ==
    /\ call.fn = "export" /\ call.done /\ call.format = "rss"
    /\ Len(call.list) = 2 /\ Len(call.output.records) = 2
    /\ call.list[1] # call.list[2]
    /\ IsSome(call.list[1].title)
    /\ call.list[1].id # call.list[1].url

----------------------------------------------------------------------------
(* Two sync passes upserting into the table while a request is served.     *)
(* Each insert_or_replace_item and each query is one SQL statement, and    *)
(* statements of different connections interleave freely.                  *)

MaxPass == 2

(* What the passes upsert: two versions of one item, and another item.     *)
PassItems ==
    {Item(<<"id1">>, SubstackKind, <<"sub">>, None, Some(<<"a">>), None, <<"id1">>,
          None, EarlyDate, CreatedAt),
     Item(<<"id1">>, SubstackKind, <<"sub">>, None, Some(<<"b">>), None, <<"id1">>,
          None, LateDate, CreatedAt),
     Item(<<"id2">>, BlueskyKind, <<"h1">>, None, None, None, <<"id2">>,
          None, EarlyDate, CreatedAt)}

NoStatus == [total |-> 0, sources |-> {}]

ServeCalls ==
    {[fn |-> "serve", passes |-> <<q1, q2>>, next |-> <<1, 1>>,
      request |-> r, pc |-> "arrived", status |-> NoStatus] :
        q1 \in SeqsUpTo(PassItems, MaxPass), q2 \in SeqsUpTo(PassItems, MaxPass),
        r \in {"status", "feed", "item"}}

(* The next insert_or_replace_item of pass p.                              *)
PassUpsert(p) ==
    /\ call.fn = "serve"
    /\ call.next[p] <= Len(call.passes[p])
    /\ items' = InsertOrReplaceRows(items, call.passes[p][call.next[p]])
    /\ call' = [call EXCEPT !.next[p] = @ + 1]
    /\ UNCHANGED <<op, like, tsq, sync>>

(* open_storage: SqliteStorage::new runs init_schema for every request.    *)
OpenStorage ==
    /\ call.fn = "serve" /\ call.pc = "arrived"
    /\ items' = InitSchema(items)
    /\ call' = [call EXCEPT !.pc = "opened"]
    /\ UNCHANGED <<op, like, tsq, sync>>

(* status_snapshot: storage.count_items()                                  *)
StatusCount ==
    /\ call.fn = "serve" /\ call.request = "status" /\ call.pc = "opened"
    /\ call' = [call EXCEPT !.pc = "counted", !.status.total = CountItems(items)]
    /\ UNCHANGED <<items, op, like, tsq, sync>>

(* status_snapshot: storage.get_stats(), then the response.                *)
StatusStats ==
    /\ call.fn = "serve" /\ call.request = "status" /\ call.pc = "counted"
    /\ call' = [call EXCEPT !.pc = "answered", !.status.sources = GetStats(items)]
    /\ UNCHANGED <<items, op, like, tsq, sync>>

(* feed_handler: list_items with the default filter.                       *)
ServeFeed ==
    /\ call.fn = "serve" /\ call.request = "feed" /\ call.pc = "opened"
    /\ \E rows \in ListItemsResults(items, DefaultFilter) :
          call' = [call EXCEPT !.pc = "answered", !.status.total = Len(rows)]
    /\ UNCHANGED <<items, op, like, tsq, sync>>

(* item_handler: get_item.                                                 *)
ServeItem ==
    /\ call.fn = "serve" /\ call.request = "item" /\ call.pc = "opened"
    /\ \E found \in GetItemResults(items, <<"id1">>) :
          call' = [call EXCEPT !.pc = "answered", !.status.total = Len(found)]
    /\ UNCHANGED <<items, op, like, tsq, sync>>

InitServe ==
    /\ items = {}
    /\ op = NoOp
    /\ like = NoLike
    /\ tsq = NoTsq
    /\ sync = NoSync
    /\ call \in ServeCalls

ReaderStep == OpenStorage \/ StatusCount \/ StatusStats \/ ServeFeed \/ ServeItem

NextServe == (\E p \in 1..2 : PassUpsert(p)) \/ ReaderStep

SpecServe == InitServe /\ [][NextServe]_vars

(* The items a pass has issued so far.                                     *)
Issued(p) == {call.passes[p][i] : i \in 1..(call.next[p] - 1)}

(* C21: under every interleaving of the upserts of two passes the table    *)
(* holds at most one row per key, and every row equals, field for field,   *)
(* an item one of the passes has upserted.                                 *)
C21_ConcurrentUpsertsKeepWholeRows ==
    call.fn = "serve" =>
        /\ \A r1, r2 \in items : SamePair(r1, r2) => r1 = r2
        /\ \A r \in items : r \in Issued(1) \cup Issued(2)

(* Both passes are through; each upserted a different version of the same  *)
(* key, and one of the two versions is stored.                             *)
C21_Witness ==
    /\ call.fn = "serve"
    /\ \A p \in 1..2 : call.next[p] > Len(call.passes[p])
    /\ \E a \in Issued(1), b \in Issued(2) :
          /\ SamePair(a, b) /\ a # b
          /\ a \notin Issued(2) /\ b \notin Issued(1)
          /\ Cardinality({r \in items : SamePair(r, a)}) = 1

(* C22: no step of a request (opening the storage, counting, statistics,   *)
(* listing, fetching one item) changes the table.                          *)
C22_ReadersNeverMutate ==
    [][ReaderStep => items' = items]_vars

(* A request was answered while the table held rows.                       *)
C22_Witness ==
    /\ call.fn = "serve" /\ call.pc = "answered" /\ call.request = "feed"
    /\ call.status.total = 2
    /\ Cardinality(items) = 2

(* The sum of the per-kind counts of a status response.                    *)
RECURSIVE SumOfCounts(_)
SumOfCounts(sources) ==
    IF sources = {} THEN 0
    ELSE LET s == CHOOSE x \in sources : TRUE
         IN  s[2] + SumOfCounts(sources \ {s})

(* C29: total_items of a status response equals the sum of the per-kind    *)
(* counts of the same response.                                            *)
C29_StatusTotalIsSumOfCounts ==
    (call.fn = "serve" /\ call.request = "status" /\ call.pc = "answered")
        => call.status.total = SumOfCounts(call.status.sources)

----------------------------------------------------------------------------
(* C25: what list_items returns depends only on the items that were        *)
(* upserted, not on the order they were upserted in: the rows stored and   *)
(* the filter leave one sequence that list_items can return.               *)
C25_ListingIsIndependentOfUpsertOrder ==
    op.name = "list_items" => ListItemsResults(items, op.filter) = {op.rows}

----------------------------------------------------------------------------
(* C26: whatever a call of sync_all_sources has written, at any moment of  *)
(* the call and however it returns, carries the kind of the kind filter    *)
(* when one is set and the source id of the source-id filter when one is   *)
(* set.                                                                    *)
C26_WrittenItemsMatchTheFilters ==
    sync.mode = "core" =>
        \A w \in sync.written :
            /\ IsSome(sync.kind) => w.source_kind = Unwrap(sync.kind)
            /\ IsSome(sync.source_id) => w.source_id = Unwrap(sync.source_id)

(* A call filtered by kind and by the Substack source id has returned      *)
(* after writing items of the source configured by its base_url.           *)
C26_Witness ==
    /\ CoreReturned
    /\ sync.kind = Some(SubstackKind)
    /\ sync.source_id = Some(<<"sub">>)
    /\ IsSome(sync.config.substack)
    /\ Unwrap(sync.config.substack).base_url # <<"sub">>
    /\ sync.written # {}

(* A call filtered by source id alone has returned an error after writing. *)
C26_WitnessError ==
    /\ CoreReturned
    /\ sync.kind = None /\ IsSome(sync.source_id)
    /\ sync.result.tag = "err"
    /\ sync.written # {}

----------------------------------------------------------------------------
(* The worker's scheduled sync: run_sync.                                  *)

(* The position of the first ":" of an entry, 0 when it has none.          *)
FirstColon(entry) ==
    IF \E i \in 1..Len(entry) : entry[i] = ":"
    THEN CHOOSE i \in 1..Len(entry) :
            entry[i] = ":" /\ \A j \in 1..(i - 1) : entry[j] # ":"
    ELSE 0

(* load_sync_config, one entry of LEAFLET_URLS or BEARBLOG_URLS:           *)
(* splitn(2, ':') gives an id and a base_url, or the entry is left out.    *)
ParseUrlEntry(entry) ==
    IF FirstColon(entry) = 0 THEN None
    ELSE Some([id |-> SubSeq(entry, 1, FirstColon(entry) - 1),
               base_url |-> SubSeq(entry, FirstColon(entry) + 1, Len(entry))])

RECURSIVE ParseUrlEntries(_)
ParseUrlEntries(entries) ==
    IF entries = <<>> THEN <<>>
    ELSE ParseUrlEntry(Head(entries)) \o ParseUrlEntries(Tail(entries))

(* load_sync_config: every variable is optional, nothing makes it fail.    *)
LoadSyncConfig(env) ==
    [substack |-> env.substack_url, bluesky |-> env.bluesky_handle,
     leaflet |-> ParseUrlEntries(env.leaflet_urls),
     bearblog |-> ParseUrlEntries(env.bearblog_urls)]

(* The sources of a configuration in the order run_sync visits them.       *)
SourcesInOrder(config) ==
    (IF IsSome(config.substack) THEN <<[kind |-> SubstackKind, id |-> <<>>]>> ELSE <<>>)
    \o (IF IsSome(config.bluesky) THEN <<[kind |-> BlueskyKind, id |-> <<>>]>> ELSE <<>>)
    \o [i \in 1..Len(config.leaflet) |-> [kind |-> LeafletKind, id |-> config.leaflet[i].id]]
    \o [i \in 1..Len(config.bearblog) |-> [kind |-> BearBlogKind, id |-> config.bearblog[i].id]]

UrlEntries == {<<"pub1", ":", "u">>, <<"blog1", ":", "https", ":", "u">>, <<"pub2">>}

WorkerEnvs ==
    [substack_url : OptionOf(SubstackUrls), bluesky_handle : OptionOf(Handles),
     leaflet_urls : SeqsUpTo(UrlEntries, MaxList),
     bearblog_urls : SeqsUpTo(UrlEntries, MaxList),
     db : BOOLEAN]

RunSyncCalls ==
    {[fn |-> "run_sync", env |-> e, pc |-> "start", config |-> LoadSyncConfig(e),
      attempts |-> <<>>, result |-> "none"] : e \in WorkerEnvs}

(* A run_sync that gives up at the first source that fails.                *)
AfterSourcePropagating(c, source, outcome) ==
    IF outcome = "err"
    THEN [c EXCEPT !.attempts = Append(@, [source |-> source, outcome |-> outcome]),
                   !.pc = "returned", !.result = "err"]
    ELSE [c EXCEPT !.attempts = Append(@, [source |-> source, outcome |-> outcome])]

(* match sync_x(..).await { Ok(count) => synced += count,                  *)
(*                          Err(e) => console_error!(..) }                 *)
AfterSource(c, source, outcome) ==
    [c EXCEPT !.attempts = Append(@, [source |-> source, outcome |-> outcome])]

(* let config = load_sync_config(env)?;                                    *)
RunSyncLoad ==
    /\ call.fn = "run_sync" /\ call.pc = "start"
    /\ call' = [call EXCEPT !.pc = "loaded"]
    /\ UNCHANGED <<items, op, like, tsq, sync>>

(* let db = env.d1("DB")?;                                                 *)
RunSyncDatabase ==
    /\ call.fn = "run_sync" /\ call.pc = "loaded"
    /\ call' = IF call.env.db THEN [call EXCEPT !.pc = "sources"]
               ELSE [call EXCEPT !.pc = "returned", !.result = "err"]
    /\ UNCHANGED <<items, op, like, tsq, sync>>

(* The next source is synced; it succeeds or fails.                        *)
RunSyncSource ==
    /\ call.fn = "run_sync" /\ call.pc = "sources"
    /\ Len(call.attempts) < Len(SourcesInOrder(call.config))
    /\ \E outcome \in {"ok", "err"} :
          call' = AfterSource(call, SourcesInOrder(call.config)[Len(call.attempts) + 1],
                              outcome)
    /\ UNCHANGED <<items, op, like, tsq, sync>>

(* console_log!("Sync completed: ..."); Ok(())                             *)
RunSyncReturn ==
    /\ call.fn = "run_sync" /\ call.pc = "sources"
    /\ Len(call.attempts) = Len(SourcesInOrder(call.config))
    /\ call' = [call EXCEPT !.pc = "returned", !.result = "ok"]
    /\ UNCHANGED <<items, op, like, tsq, sync>>

InitWorker ==
    /\ items = {}
    /\ op = NoOp
    /\ like = NoLike
    /\ tsq = NoTsq
    /\ sync = NoSync
    /\ call \in RunSyncCalls

NextWorker == RunSyncLoad \/ RunSyncDatabase \/ RunSyncSource \/ RunSyncReturn

SpecWorker == InitWorker /\ [][NextWorker]_vars

RunSyncReturned == call.fn = "run_sync" /\ call.pc = "returned"

AttemptedSources == [i \in 1..Len(call.attempts) |-> call.attempts[i].source]

----------------------------------------------------------------------------
WithoutCreatedAt(rows) == {[r EXCEPT !.created_at = <<>>] : r \in rows}

(* C28: given the same Bluesky response and handle, the worker's           *)
(* sync_bluesky and the core's BlueskyFetcher::sync both succeed or both   *)
(* fail, and upsert items that agree in every field but created_at.        *)
C28_WorkerStoresWhatCoreStores ==
    (call.fn = "bluesky_pair" /\ call.outcome = "returned") =>
        /\ call.core.result = call.worker.result
        /\ WithoutCreatedAt(call.core.written) = WithoutCreatedAt(call.worker.written)

----------------------------------------------------------------------------
(* What the gate of the other deployment answers to the request of the     *)
(* call under the same configuration.                                      *)
OtherGateOutcome ==
    IF call.surface = "server" THEN WorkerFetch(call.config, call.request)
    ELSE CorsMiddleware(call.config, call.request)

(* C30: under the same CorsConfig the server's gate answers a request with *)
(* 403 exactly when the worker's gate does.                                *)
C30_GatesRejectTheSameRequests ==
    (call.fn = "cors" /\ call.outcome # "pending") =>
        ((call.outcome = "forbidden") <=> (OtherGateOutcome = "forbidden"))

============================================================================
